---- MODULE Spec2Model ----
(***************************************************************************)
(* The Overlord of google/minions: the scan state store                    *)
(* (go/overlord/state/statemanager.go), the interest algebra               *)
(* (go/interests/interests.go), the Overlord service                       *)
(* (go/overlord/overlord.go) and the goblin's SendFiles loop               *)
(* (go/goblins/fileutil.go).                                               *)
(***************************************************************************)
EXTENDS Integers, Sequences, FiniteSets, TLC

VARIABLES
  lc,                \* Local.lc: the cache, scan id -> state{interests, files}
  initialInterests,  \* Server.initialInterests
  uuids,             \* how many scan ids uuid.New has handed out
  last,              \* the last call served: its request, what it sent, its answer
  goblin,            \* the goblin: its file tree and where it is in SendFiles
  pending            \* the ScanFiles calls that are being served side by side

vars == <<lc, initialInterests, uuids, last, goblin, pending>>

(***************************************************************************)
(* Bounds of the model.                                                    *)
(***************************************************************************)
MaxOffset == 1      \* chunk offsets are drawn from 0..MaxOffset
MaxChunkLen == 1    \* a chunk carries at most this many bytes
MaxChunks == 2      \* chunks of one File of a request
MaxSize == 1        \* metadata.size is drawn from 0..MaxSize
MaxFileSize == 2    \* the files of the goblin's tree have at most this many bytes
MaxInterests == 5    \* the registry of a scan is not grown beyond this length
MaxGoblinInterests == 6  \* nor, while the goblin is at work, beyond this one
MaxMinify == 3            \* the interests Minify is given
MaxTime == 6              \* the ticks the clock of the cache is let to run
MaxAddresses == 2         \* the minion addresses the Overlord is started with
MaxPackages == 2          \* the packages the vulners minion comes to know for a scan

Paths == {"/a", "/b"}
Minions == {"m1", "m2"}                 \* keys of Server.minions
UnknownScan == "nope"                   \* an id uuid.New never hands out

METADATA == "METADATA"
METADATA_AND_DATA == "METADATA_AND_DATA"
DataTypes == {METADATA, METADATA_AND_DATA}

NoError == "ok"
ErrOverlap == "received a file with overlapping DataChunks"
ErrMissing == "received a file with missing DataChunks"
ErrNoMetadata == "cannot match file without metadata"
ErrRegexp == "error parsing regexp"
ErrUnknownScan == "unknown scan ID"
ErrToken == "token support is unimplemented"
ErrUnknownMinion == "interest expressed by a minion that is not known to the Overlord"
ErrMinion == "minion error"
ErrDial == "grpc.Dial: error"
Panic == "panic: interface conversion: interface {} is nil, not state.state"
NilMetadata == [nil |-> TRUE]           \* a File whose Metadata is nil

\* The bytes of a chunk that getDataChunks cuts (2 MiB in the source, line
\* 314), scaled to the files of the model.
chunkSize == 1

\* cache.New(5*time.Minute, 10*time.Minute), in ticks of two and a half
\* minutes: the default expiration of an item and the interval at which the
\* janitor of the cache deletes the expired items.
DefaultExpiration == 2
CleanupInterval == 4

(***************************************************************************)
(* Values.                                                                 *)
(***************************************************************************)
Interest(path, dt) == [PathRegexp |-> path, ContentRegexp |-> "", DataType |-> dt]

MappedInterest(i, m) == [Interest |-> i, Minion |-> m]

FileMetadata(path, size) == [Path |-> path, Size |-> size]

\* The byte at position p of every file is p, so that a byte stored at the
\* wrong place or twice is visible in the stored data.
ChunkData(offset, n) == [k \in 1..n |-> offset + k - 1]

DataChunk(offset, n) == [Offset |-> offset, Data |-> ChunkData(offset, n)]

GetPath(metadata) == IF metadata = NilMetadata THEN "" ELSE metadata.Path

GetSize(metadata) == IF metadata = NilMetadata THEN 0 ELSE metadata.Size

Range(s) == {s[k] : k \in 1..Len(s)}

RECURSIVE Flatten(_)
Flatten(ss) == IF ss = <<>> THEN <<>> ELSE Head(ss) \o Flatten(Tail(ss))

\* All the orders in which a Go map with these keys can be ranged over.
Orders(S) == {o \in [1..Cardinality(S) -> S] : Range(o) = S}

(***************************************************************************)
(* regexp.MatchString for the patterns of the model: a pattern without     *)
(* metacharacters is found anywhere in the subject; "(" does not compile.  *)
(***************************************************************************)
RegexpCompiles(pattern) == \A k \in 1..Len(pattern) : SubSeq(pattern, k, k) # "("

compile(pattern, s) ==
  IF ~RegexpCompiles(pattern) THEN [match |-> FALSE, err |-> ErrRegexp]
  ELSE [match |-> \E k \in 1..(Len(s) - Len(pattern) + 1) :
                     SubSeq(s, k, k + Len(pattern) - 1) = pattern,
        err |-> NoError]

Patterns == {"/a", "/b", "/", "("}

\* The answers of regexp.MatchString, computed once.
matchStrings == [pattern \in Patterns |-> [s \in Paths \cup {""} |-> compile(pattern, s)]]

MatchString(pattern, s) == matchStrings[pattern][s]

(***************************************************************************)
(* interests.Minify and interests.IsMatching.                              *)
(***************************************************************************)
\* The map of a Minify that keeps the first interest of each pattern (no
\* overwrite at lines 38-40).
RECURSIVE uniqueInterestsFirst(_, _)
uniqueInterestsFirst(interests, n) ==
  IF n = 0 THEN [p \in {} |-> Interest("", METADATA)]
  ELSE LET m == uniqueInterestsFirst(interests, n - 1)
           i == interests[n]
       IN IF i.PathRegexp \notin DOMAIN m THEN (i.PathRegexp :> i) @@ m ELSE m

RECURSIVE uniqueInterests(_, _)
\* The map Minify builds, as the set of its (key, value) pairs after the
\* first n interests.
uniqueInterests(interests, n) ==
  IF n = 0 THEN [p \in {} |-> Interest("", METADATA)]
  ELSE LET m == uniqueInterests(interests, n - 1)
           i == interests[n]
       IN IF i.PathRegexp \notin DOMAIN m THEN (i.PathRegexp :> i) @@ m
          ELSE IF i.DataType = METADATA_AND_DATA THEN [m EXCEPT ![i.PathRegexp] = i]
          ELSE m

\* Minify returns the values of the map in the order the map is ranged over:
\* the set of the slices it can return.
Minify(interests) ==
  LET m == uniqueInterests(interests, Len(interests))
  IN {[k \in 1..Len(o) |-> m[o[k]]] : o \in Orders(DOMAIN m)}

\* IsMatching that does not ask for data chunks (line 65 without the len).
IsMatchingAnyData(interest, file) ==
  IF file.Metadata = NilMetadata THEN [match |-> FALSE, err |-> ErrNoMetadata]
  ELSE LET r == MatchString(interest.PathRegexp, file.Metadata.Path)
       IN IF r.err # NoError \/ ~r.match THEN [match |-> FALSE, err |-> r.err]
          ELSE [match |-> TRUE, err |-> NoError]

\* IsMatching that takes a pattern that does not compile for a pattern that
\* does not match (line 62 returning nil for err).
IsMatchingSilent(interest, file) ==
  IF file.Metadata = NilMetadata THEN [match |-> FALSE, err |-> ErrNoMetadata]
  ELSE LET r == MatchString(interest.PathRegexp, file.Metadata.Path)
       IN IF r.err # NoError \/ ~r.match THEN [match |-> FALSE, err |-> NoError]
          ELSE LET dataNeededAndThere == interest.DataType = METADATA_AND_DATA
                                         /\ Len(file.DataChunks) > 0
               IN [match |-> interest.DataType = METADATA \/ dataNeededAndThere,
                   err |-> NoError]

\* interests.IsMatching
IsMatching(interest, file) ==
  IF file.Metadata = NilMetadata THEN [match |-> FALSE, err |-> ErrNoMetadata]
  ELSE LET r == MatchString(interest.PathRegexp, file.Metadata.Path)
       IN IF r.err # NoError \/ ~r.match THEN [match |-> FALSE, err |-> r.err]
          ELSE LET dataNeededAndThere == interest.DataType = METADATA_AND_DATA
                                         /\ Len(file.DataChunks) > 0
               IN [match |-> interest.DataType = METADATA \/ dataNeededAndThere,
                   err |-> NoError]

(***************************************************************************)
(* state.Local: the scan state store.  A state is held in the cache by     *)
(* value, but its files map, the Files in it and their accumulating chunk  *)
(* are shared with every copy getState returns: a write to them is a write *)
(* to the cached state, whether or not setState follows.                   *)
(***************************************************************************)
emptyState == [interests |-> <<>>, files |-> [p \in {} |-> NilMetadata]]

\* AddFiles without the sort of the chunks (lines 75-77).
sortSliceNone(newChunks) == newChunks

\* sort.Slice by offset: below 12 elements Go sorts by insertion, which keeps
\* the order of chunks of equal offset.
RECURSIVE sortSlice(_)
sortSlice(newChunks) ==
  IF newChunks = <<>> THEN <<>>
  ELSE LET n == Len(newChunks)
           sorted == sortSlice(SubSeq(newChunks, 1, n - 1))
           chunk == newChunks[n]
           k == Cardinality({j \in 1..(n - 1) : sorted[j].Offset <= chunk.Offset})
       IN SubSeq(sorted, 1, k) \o <<chunk>> \o SubSeq(sorted, k + 1, n - 1)

noFailure == [file |-> 0, Path |-> "", chunk |-> 0, Offset |-> 0, size |-> 0]

\* appendChunks that refuses a chunk starting exactly at the end of the file
\* (<= for < at line 79).
RECURSIVE appendChunksOverlapAtEnd(_, _, _, _)
appendChunksOverlapAtEnd(data, newChunks, k, accepted) ==
  IF k > Len(newChunks)
  THEN [Data |-> data, err |-> NoError, accepted |-> accepted,
        chunk |-> 0, Offset |-> 0, size |-> Len(data)]
  ELSE IF newChunks[k].Offset <= Len(data)
  THEN [Data |-> data, err |-> ErrOverlap, accepted |-> accepted,
        chunk |-> k, Offset |-> newChunks[k].Offset, size |-> Len(data)]
  ELSE IF newChunks[k].Offset # Len(data)
  THEN [Data |-> data, err |-> ErrMissing, accepted |-> accepted,
        chunk |-> k, Offset |-> newChunks[k].Offset, size |-> Len(data)]
  ELSE appendChunksOverlapAtEnd(data \o newChunks[k].Data, newChunks, k + 1,
                                Append(accepted, newChunks[k]))

\* appendChunks without the check for a missing chunk (line 82).
RECURSIVE appendChunksNoGapCheck(_, _, _, _)
appendChunksNoGapCheck(data, newChunks, k, accepted) ==
  IF k > Len(newChunks)
  THEN [Data |-> data, err |-> NoError, accepted |-> accepted,
        chunk |-> 0, Offset |-> 0, size |-> Len(data)]
  ELSE IF newChunks[k].Offset < Len(data)
  THEN [Data |-> data, err |-> ErrOverlap, accepted |-> accepted,
        chunk |-> k, Offset |-> newChunks[k].Offset, size |-> Len(data)]
  ELSE appendChunksNoGapCheck(data \o newChunks[k].Data, newChunks, k + 1,
                              Append(accepted, newChunks[k]))

\* appendChunks that keeps only the bytes of the chunk it appends (= for
\* append at line 85).
RECURSIVE appendChunksReplace(_, _, _, _)
appendChunksReplace(data, newChunks, k, accepted) ==
  IF k > Len(newChunks)
  THEN [Data |-> data, err |-> NoError, accepted |-> accepted,
        chunk |-> 0, Offset |-> 0, size |-> Len(data)]
  ELSE IF newChunks[k].Offset < Len(data)
  THEN [Data |-> data, err |-> ErrOverlap, accepted |-> accepted,
        chunk |-> k, Offset |-> newChunks[k].Offset, size |-> Len(data)]
  ELSE IF newChunks[k].Offset # Len(data)
  THEN [Data |-> data, err |-> ErrMissing, accepted |-> accepted,
        chunk |-> k, Offset |-> newChunks[k].Offset, size |-> Len(data)]
  ELSE appendChunksReplace(newChunks[k].Data, newChunks, k + 1,
                           Append(accepted, newChunks[k]))

\* AddFiles, the loop over the sorted chunks of one File (lines 78-87), from
\* the k-th chunk on: data is currentChunk.Data, and size is len(data) all
\* along.  accepted lists the chunks appended, and chunk, Offset and size
\* tell which chunk was refused at which length.
RECURSIVE appendChunks(_, _, _, _)
appendChunks(data, newChunks, k, accepted) ==
  IF k > Len(newChunks)
  THEN [Data |-> data, err |-> NoError, accepted |-> accepted,
        chunk |-> 0, Offset |-> 0, size |-> Len(data)]
  ELSE LET chunk == newChunks[k]
           size == Len(data)
       IN IF chunk.Offset < size
          THEN [Data |-> data, err |-> ErrOverlap, accepted |-> accepted,
                chunk |-> k, Offset |-> chunk.Offset, size |-> size]
          ELSE IF chunk.Offset # size
          THEN [Data |-> data, err |-> ErrMissing, accepted |-> accepted,
                chunk |-> k, Offset |-> chunk.Offset, size |-> size]
          ELSE appendChunks(data \o chunk.Data, newChunks, k + 1, Append(accepted, chunk))

\* AddFiles, the loop over the files of the call (lines 58-88), from the
\* k-th file on: what the files map of the scan holds when the loop ends or
\* returns an error.
RECURSIVE addFilesLoop(_, _, _, _)
addFilesLoop(sfiles, files, k, accepted) ==
  IF k > Len(files)
  THEN [files |-> sfiles, err |-> NoError, accepted |-> accepted, failed |-> noFailure]
  ELSE LET f == files[k]
           path == GetPath(f.Metadata)
           alreadyKnown == path \in DOMAIN sfiles
           currentFile == IF alreadyKnown THEN sfiles[path]
                          ELSE [Metadata |-> f.Metadata,
                                DataChunks |-> <<[Offset |-> 0, Data |-> <<>>]>>]
           r == appendChunks(currentFile.DataChunks[1].Data, sortSlice(f.DataChunks),
                             1, <<>>)
           stored == [currentFile EXCEPT !.DataChunks[1].Data = r.Data]
           sfiles2 == (path :> stored) @@ sfiles
           accepted2 == accepted \o [j \in 1..Len(r.accepted) |->
                                       [Path |-> path, Offset |-> r.accepted[j].Offset,
                                        Data |-> r.accepted[j].Data]]
       IN IF r.err # NoError
          THEN [files |-> sfiles2, err |-> r.err, accepted |-> accepted2,
                failed |-> [file |-> k, Path |-> path, chunk |-> r.chunk,
                            Offset |-> r.Offset, size |-> r.size]]
          ELSE addFilesLoop(sfiles2, files, k + 1, accepted2)

\* Local.AddFiles on a scan that is in the cache.
AddFiles(c, scanID, files) ==
  LET r == addFilesLoop(c[scanID].files, files, 1, <<>>)
  IN [lc |-> [c EXCEPT ![scanID].files = r.files], err |-> r.err,
      accepted |-> r.accepted, failed |-> r.failed]

\* Local.CreateScan
StateCreateScan(c, scanID) == (scanID :> emptyState) @@ c

\* AddInterest that does not keep the minion with the interest.
AddInterestUntagged(c, scanID, interest, minion) ==
  [c EXCEPT ![scanID].interests = Append(@, MappedInterest(interest, ""))]

\* AddInterest on a store that keeps one registry for all the scans.
AddInterestEverywhere(c, scanID, interest, minion) ==
  [id \in DOMAIN c |->
     [c[id] EXCEPT !.interests = Append(@, MappedInterest(interest, minion))]]

\* Local.AddInterest on a scan that is in the cache.
AddInterest(c, scanID, interest, minion) ==
  [c EXCEPT ![scanID].interests = Append(@, MappedInterest(interest, minion))]

\* CreateScan without its loop over the initial interests (line 121).
AddInterestsNone(c, scanID, mapped) == c

RECURSIVE AddInterests(_, _, _)
\* The loops of CreateScan (line 121) and ScanFiles (line 222) over AddInterest.
AddInterests(c, scanID, mapped) ==
  IF mapped = <<>> THEN c
  ELSE AddInterests(AddInterest(c, scanID, Head(mapped).Interest, Head(mapped).Minion),
                    scanID, Tail(mapped))

ScanExists(c, scanID) == scanID \in DOMAIN c

\* Local.GetFiles: the files of the scan, in an order the files map can be
\* ranged over.
GetFiles(c, scanID) ==
  {[k \in 1..Len(o) |-> c[scanID].files[o[k]]] : o \in Orders(DOMAIN c[scanID].files)}

GetInterests(c, scanID) == c[scanID].interests

(***************************************************************************)
(* overlord.Server.                                                        *)
(***************************************************************************)
\* The interests of a slice of MappedInterest (CreateScan line 129,
\* ListInterests line 151).
InterestsOf(mapped) == [k \in 1..Len(mapped) |-> mapped[k].Interest]

\* append(routedFiles[minion], file)
appendRouted(routedFiles, minion, file) ==
  IF minion \in DOMAIN routedFiles
  THEN [routedFiles EXCEPT ![minion] = Append(@, file)]
  ELSE (minion :> <<file>>) @@ routedFiles

\* routeFile that leaves the loop at the first interest it routes the file for.
RECURSIVE routeFileFirstMatch(_, _, _, _)
routeFileFirstMatch(routedFiles, f, interestsForMinions, k) ==
  IF k > Len(interestsForMinions) THEN [routedFiles |-> routedFiles, err |-> NoError]
  ELSE LET candidate == interestsForMinions[k]
           m == IsMatching(candidate.Interest, f)
           isComplete == GetSize(f.Metadata) = Len(f.DataChunks[1].Data)
       IN IF m.err # NoError THEN [routedFiles |-> routedFiles, err |-> m.err]
          ELSE IF ~m.match THEN routeFileFirstMatch(routedFiles, f, interestsForMinions, k + 1)
          ELSE IF candidate.Interest.DataType = METADATA_AND_DATA /\ isComplete
          THEN [routedFiles |-> appendRouted(routedFiles, candidate.Minion,
                                             [Metadata |-> f.Metadata,
                                              Data |-> f.DataChunks[1].Data]),
                err |-> NoError]
          ELSE IF candidate.Interest.DataType = METADATA
          THEN [routedFiles |-> appendRouted(routedFiles, candidate.Minion,
                                             [Metadata |-> f.Metadata, Data |-> <<>>]),
                err |-> NoError]
          ELSE routeFileFirstMatch(routedFiles, f, interestsForMinions, k + 1)

\* routeFile that does not ask whether the file is complete (line 191
\* without isComplete).
RECURSIVE routeFileIncomplete(_, _, _, _)
routeFileIncomplete(routedFiles, f, interestsForMinions, k) ==
  IF k > Len(interestsForMinions) THEN [routedFiles |-> routedFiles, err |-> NoError]
  ELSE LET candidate == interestsForMinions[k]
           m == IsMatching(candidate.Interest, f)
       IN IF m.err # NoError THEN [routedFiles |-> routedFiles, err |-> m.err]
          ELSE IF ~m.match THEN routeFileIncomplete(routedFiles, f, interestsForMinions, k + 1)
          ELSE IF candidate.Interest.DataType = METADATA_AND_DATA
          THEN routeFileIncomplete(appendRouted(routedFiles, candidate.Minion,
                                                [Metadata |-> f.Metadata,
                                                 Data |-> f.DataChunks[1].Data]),
                                   f, interestsForMinions, k + 1)
          ELSE routeFileIncomplete(appendRouted(routedFiles, candidate.Minion,
                                                [Metadata |-> f.Metadata, Data |-> <<>>]),
                                   f, interestsForMinions, k + 1)

\* routeFile that sends the bytes of the file for an interest in its
\* metadata alone as well (line 198 with the data of line 193).
RECURSIVE routeFileMetadataWithData(_, _, _, _)
routeFileMetadataWithData(routedFiles, f, interestsForMinions, k) ==
  IF k > Len(interestsForMinions) THEN [routedFiles |-> routedFiles, err |-> NoError]
  ELSE LET candidate == interestsForMinions[k]
           m == IsMatching(candidate.Interest, f)
           isComplete == GetSize(f.Metadata) = Len(f.DataChunks[1].Data)
       IN IF m.err # NoError THEN [routedFiles |-> routedFiles, err |-> m.err]
          ELSE IF ~m.match
          THEN routeFileMetadataWithData(routedFiles, f, interestsForMinions, k + 1)
          ELSE IF \/ candidate.Interest.DataType = METADATA_AND_DATA /\ isComplete
                  \/ candidate.Interest.DataType = METADATA
          THEN routeFileMetadataWithData(appendRouted(routedFiles, candidate.Minion,
                                                      [Metadata |-> f.Metadata,
                                                       Data |-> f.DataChunks[1].Data]),
                                         f, interestsForMinions, k + 1)
          ELSE routeFileMetadataWithData(routedFiles, f, interestsForMinions, k + 1)

\* ScanFiles, the loop over the interests for one stored file f (lines
\* 182-202), from the k-th interest on.
RECURSIVE routeFile(_, _, _, _)
routeFile(routedFiles, f, interestsForMinions, k) ==
  IF k > Len(interestsForMinions) THEN [routedFiles |-> routedFiles, err |-> NoError]
  ELSE LET candidate == interestsForMinions[k]
           m == IsMatching(candidate.Interest, f)
           isComplete == GetSize(f.Metadata) = Len(f.DataChunks[1].Data)
       IN IF m.err # NoError THEN [routedFiles |-> routedFiles, err |-> m.err]
          ELSE IF ~m.match THEN routeFile(routedFiles, f, interestsForMinions, k + 1)
          ELSE IF candidate.Interest.DataType = METADATA_AND_DATA /\ isComplete
          THEN routeFile(appendRouted(routedFiles, candidate.Minion,
                                      [Metadata |-> f.Metadata,
                                       Data |-> f.DataChunks[1].Data]),
                         f, interestsForMinions, k + 1)
          ELSE IF candidate.Interest.DataType = METADATA
          THEN routeFile(appendRouted(routedFiles, candidate.Minion,
                                      [Metadata |-> f.Metadata, Data |-> <<>>]),
                         f, interestsForMinions, k + 1)
          ELSE routeFile(routedFiles, f, interestsForMinions, k + 1)

\* ScanFiles, the loop over the stored files (lines 177-203), from the k-th
\* file on.
RECURSIVE routeFiles(_, _, _, _)
routeFiles(routedFiles, files, interestsForMinions, k) ==
  IF k > Len(files) THEN [routedFiles |-> routedFiles, err |-> NoError]
  ELSE LET r == routeFile(routedFiles, files[k], interestsForMinions, 1)
       IN IF r.err # NoError THEN r
          ELSE routeFiles(r.routedFiles, files, interestsForMinions, k + 1)

noResponse == [Results |-> <<>>, NewInterests |-> <<>>]

\* ScanFiles whose loop returns the response made so far when a minion
\* fails.
RECURSIVE fanOutPartial(_, _, _, _, _, _, _, _)
fanOutPartial(c, scanID, routedFiles, order, answers, k, resp, calls) ==
  IF k > Len(order) THEN [lc |-> c, resp |-> resp, err |-> NoError, calls |-> calls]
  ELSE LET address == order[k]
           files == routedFiles[address]
           minionResp == answers[address]
           called == Append(calls, [Minion |-> address, ScanId |-> scanID,
                                    Files |-> files, answer |-> minionResp])
       IN IF address \notin Minions
          THEN [lc |-> c, resp |-> noResponse, err |-> ErrUnknownMinion, calls |-> calls]
          ELSE IF minionResp.err # NoError
          THEN [lc |-> c, resp |-> resp, err |-> minionResp.err, calls |-> called]
          ELSE fanOutPartial(AddInterests(c, scanID,
                                   [j \in 1..Len(minionResp.NewInterests) |->
                                      MappedInterest(minionResp.NewInterests[j], address)]),
                      scanID, routedFiles, order, answers, k + 1,
                      [Results |-> resp.Results \o minionResp.Findings,
                       NewInterests |-> resp.NewInterests \o minionResp.NewInterests],
                      called)

\* ScanFiles whose loop registers the new interests of an answer before it
\* looks at the error that came with it.
RECURSIVE fanOutFailingCounts(_, _, _, _, _, _, _, _)
fanOutFailingCounts(c, scanID, routedFiles, order, answers, k, resp, calls) ==
  IF k > Len(order) THEN [lc |-> c, resp |-> resp, err |-> NoError, calls |-> calls]
  ELSE LET address == order[k]
           files == routedFiles[address]
           minionResp == answers[address]
           called == Append(calls, [Minion |-> address, ScanId |-> scanID,
                                    Files |-> files, answer |-> minionResp])
           added == AddInterests(c, scanID,
                                 [j \in 1..Len(minionResp.NewInterests) |->
                                    MappedInterest(minionResp.NewInterests[j], address)])
       IN IF address \notin Minions
          THEN [lc |-> c, resp |-> noResponse, err |-> ErrUnknownMinion, calls |-> calls]
          ELSE IF minionResp.err # NoError
          THEN [lc |-> added, resp |-> noResponse, err |-> minionResp.err, calls |-> called]
          ELSE fanOutFailingCounts(added,
                      scanID, routedFiles, order, answers, k + 1,
                      [Results |-> resp.Results \o minionResp.Findings,
                       NewInterests |-> resp.NewInterests \o minionResp.NewInterests],
                      called)

\* ScanFiles, the loop over routedFiles (lines 206-225), from the k-th
\* address of the order in which the map is ranged over; answers[address] is
\* what that minion answers to AnalyzeFiles.  calls lists the AnalyzeFiles
\* requests made.
RECURSIVE fanOut(_, _, _, _, _, _, _, _)
fanOut(c, scanID, routedFiles, order, answers, k, resp, calls) ==
  IF k > Len(order) THEN [lc |-> c, resp |-> resp, err |-> NoError, calls |-> calls]
  ELSE LET address == order[k]
           files == routedFiles[address]
           minionResp == answers[address]
           called == Append(calls, [Minion |-> address, ScanId |-> scanID,
                                    Files |-> files, answer |-> minionResp])
       IN IF address \notin Minions
          THEN [lc |-> c, resp |-> noResponse, err |-> ErrUnknownMinion, calls |-> calls]
          ELSE IF minionResp.err # NoError
          THEN [lc |-> c, resp |-> noResponse, err |-> minionResp.err, calls |-> called]
          ELSE fanOut(AddInterests(c, scanID,
                                   [j \in 1..Len(minionResp.NewInterests) |->
                                      MappedInterest(minionResp.NewInterests[j], address)]),
                      scanID, routedFiles, order, answers, k + 1,
                      [Results |-> resp.Results \o minionResp.Findings,
                       NewInterests |-> resp.NewInterests \o minionResp.NewInterests],
                      called)

(***************************************************************************)
(* The requests of the clients and the answers of the minions.             *)
(***************************************************************************)
Chunks == {DataChunk(o, n) : o \in 0..MaxOffset, n \in 0..MaxChunkLen}

ChunkSeqs(n) == UNION {[1..k -> Chunks] : k \in 0..n}

ReqFiles(n) ==
  {[Metadata |-> FileMetadata(p, sz), DataChunks |-> cs] :
     p \in Paths, sz \in 0..MaxSize, cs \in ChunkSeqs(n)}

\* What the state store is given: no file, one file of up to MaxChunks
\* chunks, or the files /a and /b with at most one chunk each.
Batches ==
  {<<>>} \cup {<<f>> : f \in ReqFiles(MaxChunks)}
         \cup {b \in ReqFiles(1) \X ReqFiles(1) :
                 b[1].Metadata.Path = "/a" /\ b[2].Metadata.Path = "/b"}

\* What the Overlord is sent: no file, or one file of at most one chunk.
Requests == {<<>>} \cup {<<f>> : f \in ReqFiles(1)}

\* The new interests a minion can come up with: the same pattern twice.
NewInterests == <<Interest("/b", METADATA), Interest("/b", METADATA_AND_DATA)>>

minionError == [err |-> ErrMinion, Findings |-> <<>>, NewInterests |-> <<>>]

minionAnswer(findings, newInterests) ==
  [err |-> NoError, Findings |-> findings, NewInterests |-> newInterests]

\* What a minion can answer to AnalyzeFiles.
MinionAnswers ==
  [m1 |-> {minionAnswer(<<"finding of m1">>, <<>>),
            minionAnswer(<<"finding of m1">>, NewInterests)},
   m2 |-> {minionAnswer(<<"finding of m2">>, <<>>), minionError}]

\* What the minions answer to ListInitialInterests.
InitialAnswers ==
  [m1 |-> <<Interest("/a", METADATA_AND_DATA), Interest("/", METADATA)>>,
   m2 |-> <<Interest("/b", METADATA)>>]

\* getInterestsFromMinions that keeps with an interest the place of the
\* minion in the loop, not the key of the minions map (line 105).
getInterestsFromMinionsByPlace(order, answers) ==
  Flatten([k \in 1..Len(order) |->
             [j \in 1..Len(answers[order[k]]) |->
                MappedInterest(answers[order[k]][j], IF k = 1 THEN "first" ELSE "later")]])

\* getInterestsFromMinions: the answers of the minions, in the order in
\* which the minions map is ranged over.
getInterestsFromMinions(order, answers) ==
  Flatten([k \in 1..Len(order) |->
             [j \in 1..Len(answers[order[k]]) |->
                MappedInterest(answers[order[k]][j], order[k])]])

ScanIdSeq == <<"s1">>

\* The record of a call: what it answered, the AnalyzeFiles calls it made,
\* the chunks AddFiles appended and the chunk it refused.  A call of the
\* state store also records the files it was given.
Call(op, scanId, err, interests, resp, calls, accepted, failed) ==
  [op |-> op, ScanId |-> scanId, Files |-> <<>>, err |-> err,
   Interests |-> interests, Results |-> resp.Results,
   NewInterests |-> resp.NewInterests, calls |-> calls,
   accepted |-> accepted, failed |-> failed]

Answer(op, scanId, err, interests) ==
  Call(op, scanId, err, interests, noResponse, <<>>, <<>>, noFailure)

\* No goblin is at work, no call is being served.
noGoblin ==
  [pc |-> "none", root |-> [p \in {} |-> 0], scanId |-> "", interests |-> <<>>,
   frames |-> <<>>, results |-> <<>>, err |-> NoError, calls |-> 0, sent |-> <<>>]

noPending == [p \in {} |-> 0]

(***************************************************************************)
(* The Overlord, one call at a time.                                       *)
(***************************************************************************)
Init ==
  /\ lc = [id \in {} |-> emptyState]
  /\ \E order \in Orders(Minions) :
       initialInterests = getInterestsFromMinions(order, InitialAnswers)
  /\ uuids = 0
  /\ last = Answer("New", "", NoError, <<>>)
  /\ goblin = noGoblin
  /\ pending = noPending

\* Server.CreateScan, with the ids uuid.New() comes up with one after the
\* other.
CreateScanWith(ids) ==
  /\ uuids < Len(ids)
  /\ LET scanId == ids[uuids + 1]
         c == AddInterests(StateCreateScan(lc, scanId), scanId, initialInterests)
     IN \E minified \in Minify(InterestsOf(GetInterests(c, scanId))) :
          /\ lc' = c
          /\ last' = Answer("CreateScan", scanId, NoError, minified)
  /\ uuids' = uuids + 1
  /\ UNCHANGED initialInterests

\* Server.CreateScan
CreateScan == CreateScanWith(ScanIdSeq)

\* The record of a ListInterests call, with the page token it was given.
\* The response is made with its interests alone (lines 150-154): its next
\* page token is left empty.
ListAnswer(scanId, pageToken, err, interests) ==
  [PageToken |-> pageToken, NextPageToken |-> ""]
    @@ Answer("ListInterests", scanId, err, interests)

\* ListInterests that looks for the scan before it looks at the page token
\* (lines 143-145 before lines 140-142).
ListInterestsScanFirst(scanId, pageToken) ==
  /\ IF ~ScanExists(lc, scanId)
     THEN last' = ListAnswer(scanId, pageToken, ErrUnknownScan, <<>>)
     ELSE IF pageToken # ""
     THEN last' = ListAnswer(scanId, pageToken, ErrToken, <<>>)
     ELSE \E minified \in Minify(InterestsOf(GetInterests(lc, scanId))) :
            last' = ListAnswer(scanId, pageToken, NoError, minified)
  /\ UNCHANGED <<lc, initialInterests, uuids>>

\* ListInterests that does not ask whether the scan exists (lines 143-145)
\* and finds no interests for a scan that does not.
ListInterestsUnchecked(scanId, pageToken) ==
  /\ IF pageToken # ""
     THEN last' = ListAnswer(scanId, pageToken, ErrToken, <<>>)
     ELSE \E minified \in Minify(IF ScanExists(lc, scanId)
                                 THEN InterestsOf(GetInterests(lc, scanId))
                                 ELSE <<>>) :
            last' = ListAnswer(scanId, pageToken, NoError, minified)
  /\ UNCHANGED <<lc, initialInterests, uuids>>

\* Server.ListInterests
ListInterests(scanId, pageToken) ==
  /\ IF pageToken # ""
     THEN last' = ListAnswer(scanId, pageToken, ErrToken, <<>>)
     ELSE IF ~ScanExists(lc, scanId)
     THEN last' = ListAnswer(scanId, pageToken, ErrUnknownScan, <<>>)
     ELSE \E minified \in Minify(InterestsOf(GetInterests(lc, scanId))) :
            last' = ListAnswer(scanId, pageToken, NoError, minified)
  /\ UNCHANGED <<lc, initialInterests, uuids>>

\* Server.ScanFiles, with what the minions can answer to AnalyzeFiles and
\* the number of interests the scan is let to grow to.
ScanFilesWith(scanID, files, minionAnswers, maxInterests) ==
  /\ IF ~ScanExists(lc, scanID)
     THEN /\ last' = Answer("ScanFiles", scanID, ErrUnknownScan, <<>>)
          /\ lc' = lc
     ELSE \E a \in {AddFiles(lc, scanID, files)} :
       IF a.err # NoError
       THEN /\ last' = Call("ScanFiles", scanID, a.err, <<>>, noResponse, <<>>,
                            a.accepted, a.failed)
            /\ lc' = a.lc
       ELSE \E stored \in GetFiles(a.lc, scanID) :
         \E r \in {routeFiles([m \in {} |-> <<>>], stored, GetInterests(a.lc, scanID), 1)} :
           IF r.err # NoError
           THEN /\ last' = Call("ScanFiles", scanID, r.err, <<>>, noResponse, <<>>,
                                a.accepted, a.failed)
                /\ lc' = a.lc
           ELSE \E order \in Orders(DOMAIN r.routedFiles) :
                  \E answers \in [DOMAIN r.routedFiles ->
                                    UNION {minionAnswers[m] : m \in Minions}] :
                    /\ \A m \in DOMAIN answers : answers[m] \in minionAnswers[m]
                    /\ \E o \in {fanOut(a.lc, scanID, r.routedFiles, order, answers, 1,
                                        noResponse, <<>>)} :
                         /\ Len(o.lc[scanID].interests) <= maxInterests
                         /\ last' = Call("ScanFiles", scanID, o.err, <<>>, o.resp, o.calls,
                                         a.accepted, a.failed)
                         /\ lc' = o.lc
  /\ UNCHANGED <<initialInterests, uuids>>

\* Server.ScanFiles
ScanFiles(scanID, files) == ScanFilesWith(scanID, files, MinionAnswers, MaxInterests)

Next ==
  \/ CreateScan /\ UNCHANGED <<goblin, pending>>
  \/ \E scanId \in DOMAIN lc \cup {UnknownScan}, pageToken \in {"", "next"} :
       ListInterests(scanId, pageToken) /\ UNCHANGED <<goblin, pending>>
  \/ \E scanID \in DOMAIN lc \cup {UnknownScan}, files \in Requests :
       ScanFiles(scanID, files) /\ UNCHANGED <<goblin, pending>>

Spec == Init /\ [][Next]_vars

(***************************************************************************)
(* The state store alone, driven as its tests drive it.                    *)
(***************************************************************************)
StoreInit ==
  /\ lc = [id \in {} |-> emptyState]
  /\ initialInterests = <<>>
  /\ uuids = 0
  /\ last = Answer("NewLocal", "", NoError, <<>>)
  /\ goblin = noGoblin
  /\ pending = noPending

\* Local.CreateScan
LocalCreateScan(scanID) ==
  /\ lc' = StateCreateScan(lc, scanID)
  /\ last' = Answer("CreateScan", scanID, NoError, <<>>)
  /\ UNCHANGED <<initialInterests, uuids, goblin, pending>>

\* Local.AddFiles
LocalAddFiles(scanID, files) ==
  /\ ScanExists(lc, scanID)
  /\ \E a \in {AddFiles(lc, scanID, files)} :
       /\ lc' = a.lc
       /\ last' = [Call("AddFiles", scanID, a.err, <<>>, noResponse, <<>>,
                        a.accepted, a.failed) EXCEPT !.Files = files]
  /\ UNCHANGED <<initialInterests, uuids, goblin, pending>>

StoreNext ==
  \/ \E scanID \in Range(ScanIdSeq) : LocalCreateScan(scanID)
  \/ \E scanID \in Range(ScanIdSeq), files \in Batches : LocalAddFiles(scanID, files)

SpecStore == StoreInit /\ [][StoreNext]_vars

(***************************************************************************)
(* Chunk reassembly.                                                       *)
(***************************************************************************)
\* The bytes stored for a path of a scan; none when the path is not stored.
StoredData(c, id, path) ==
  IF id \in DOMAIN c /\ path \in DOMAIN c[id].files
  THEN c[id].files[path].DataChunks[1].Data
  ELSE <<>>

RECURSIVE TotalLen(_)
TotalLen(chunks) ==
  IF chunks = <<>> THEN 0 ELSE Len(Head(chunks).Data) + TotalLen(Tail(chunks))

\* The chunks of a file, each with the path of the file.
ChunksOf(f) ==
  [j \in 1..Len(f.DataChunks) |->
     [Path |-> GetPath(f.Metadata), Offset |-> f.DataChunks[j].Offset,
      Data |-> f.DataChunks[j].Data]]

Occurrences(x, seq) == Cardinality({j \in 1..Len(seq) : seq[j] = x})

AcceptedFor(path) == SelectSeq(last.accepted, LAMBDA ch : ch.Path = path)

\* C1: the bytes stored for a path are the bytes 0, 1, ... of the file, one
\* accumulating chunk at offset 0; the chunks the last AddFiles accepted for the
\* path are the end of them, in ascending offset order, each at the offset
\* that was the length of the file when it was appended; and an AddFiles that
\* succeeds has accepted exactly the chunks it was given.
C1_Contiguous ==
  /\ \A id \in DOMAIN lc : \A path \in DOMAIN lc[id].files :
       /\ Len(lc[id].files[path].DataChunks) = 1
       /\ lc[id].files[path].DataChunks[1].Offset = 0
       /\ StoredData(lc, id, path) = ChunkData(0, Len(StoredData(lc, id, path)))
  /\ last.op = "AddFiles" =>
       /\ \A path \in Paths :
            LET acc == AcceptedFor(path)
                data == StoredData(lc, last.ScanId, path)
                before == Len(data) - TotalLen(acc)
            IN /\ before >= 0
               /\ \A j \in 1..Len(acc) :
                    /\ acc[j].Offset = before + TotalLen(SubSeq(acc, 1, j - 1))
                    /\ SubSeq(data, acc[j].Offset + 1, acc[j].Offset + Len(acc[j].Data))
                         = acc[j].Data
                    /\ j > 1 => acc[j - 1].Offset <= acc[j].Offset
       /\ last.err = NoError =>
            LET given == Flatten([k \in 1..Len(last.Files) |-> ChunksOf(last.Files[k])])
            IN /\ Len(given) = Len(last.accepted)
               /\ \A x \in Range(given) :
                    Occurrences(x, given) = Occurrences(x, last.accepted)

\* Two chunks given out of order in one call have been put together.
C1_Witness ==
  /\ last.op = "AddFiles"
  /\ last.err = NoError
  /\ Len(last.Files) = 1
  /\ Len(last.Files[1].DataChunks) = 2
  /\ last.Files[1].DataChunks[1].Offset > last.Files[1].DataChunks[2].Offset
  /\ Len(StoredData(lc, last.ScanId, GetPath(last.Files[1].Metadata))) = 2

(***************************************************************************)
(* Refused chunks.                                                         *)
(***************************************************************************)
\* The last call and the one before it gave the store one file of one chunk.
OneChunk(call) ==
  /\ call.op = "AddFiles"
  /\ Len(call.Files) = 1
  /\ Len(call.Files[1].DataChunks) = 1

\* The error of an AddFiles call tells how the refused chunk lies to the end
\* of the stored bytes, and a call of one chunk is decided by the bytes
\* stored before it.
ErrorKinds ==
  last'.op = "AddFiles" =>
    /\ last'.err \in {NoError, ErrOverlap, ErrMissing}
    /\ last'.err = NoError <=> last'.failed.chunk = 0
    /\ last'.err = ErrOverlap <=>
         (last'.failed.chunk > 0 /\ last'.failed.Offset < last'.failed.size)
    /\ last'.err = ErrMissing <=>
         (last'.failed.chunk > 0 /\ last'.failed.Offset > last'.failed.size)
    /\ OneChunk(last') =>
         LET stored == Len(StoredData(lc, last'.ScanId, GetPath(last'.Files[1].Metadata)))
             chunk == last'.Files[1].DataChunks[1]
         IN /\ chunk.Offset < stored => last'.err = ErrOverlap
            /\ chunk.Offset > stored => last'.err = ErrMissing
            /\ chunk.Offset = stored => last'.err = NoError

\* The call gives again a chunk that the call before it appended.
Resubmits ==
  /\ last.op = "AddFiles"
  /\ OneChunk(last')
  /\ last'.ScanId = last.ScanId
  /\ ChunksOf(last'.Files[1])[1] \in Range(last.accepted)

\* C2: a chunk starting before the end of the stored bytes is refused as
\* overlapping and one starting after it as missing, a chunk starting at the
\* end is appended; so giving again a chunk with bytes that the call before
\* appended fails as overlapping.
C2_Refused ==
  [][/\ ErrorKinds
     /\ (Resubmits /\ last'.Files[1].DataChunks[1].Data # <<>>)
          => last'.err = ErrOverlap]_vars

\* C2 as the specification words it: giving again any chunk that the call
\* before appended fails as overlapping.
C2_AnyResubmissionOverlaps ==
  [][ErrorKinds /\ (Resubmits => last'.err = ErrOverlap)]_vars

\* A chunk with a byte that is stored already has been refused as overlapping.
C2_Witness ==
  /\ OneChunk(last)
  /\ last.err = ErrOverlap
  /\ LET chunk == last.Files[1].DataChunks[1]
         data == StoredData(lc, last.ScanId, GetPath(last.Files[1].Metadata))
     IN /\ chunk.Data # <<>>
        /\ Len(data) >= chunk.Offset + Len(chunk.Data)
        /\ SubSeq(data, chunk.Offset + 1, chunk.Offset + Len(chunk.Data)) = chunk.Data

\* C3: an AddFiles call that fails leaves the bytes of the file whose chunk it
\* refused as they were before the call.
C3_FailingFileUntouched ==
  [][(last'.op = "AddFiles" /\ last'.err # NoError) =>
       StoredData(lc', last'.ScanId, last'.failed.Path)
         = StoredData(lc, last'.ScanId, last'.failed.Path)]_vars

\* C4: an AddFiles call that fails leaves the files of the scan as they were
\* before the call.
C4_AllOrNothing ==
  [][(last'.op = "AddFiles" /\ last'.err # NoError) =>
       lc'[last'.ScanId].files = lc[last'.ScanId].files]_vars

(***************************************************************************)
(* Routing.                                                                *)
(***************************************************************************)
\* The interests of the scan of the last call that its routing pass read:
\* the registry without the new interests the call has added since.
RoutedInterests ==
  LET registry == lc[last.ScanId].interests
  IN SubSeq(registry, 1, Len(registry) - Len(last.NewInterests))

\* The file is stored with all its bytes.
Complete(f) == Len(f.DataChunks[1].Data) = GetSize(f.Metadata)

\* Some interest of the minion matches the file, and the file has the data
\* the interest asks for.
Wanted(f, minion, registry) ==
  \E k \in 1..Len(registry) :
    /\ registry[k].Minion = minion
    /\ MatchString(registry[k].Interest.PathRegexp, GetPath(f.Metadata)).match
    /\ \/ registry[k].Interest.DataType = METADATA
       \/ registry[k].Interest.DataType = METADATA_AND_DATA /\ Complete(f)

\* The requests AnalyzeFiles the last call made to the minion.
RequestsTo(minion) == {k \in 1..Len(last.calls) : last.calls[k].Minion = minion}

\* The call has sent the file to the minion.
DeliveredBy(call, f, minion) ==
  \E k \in 1..Len(call.calls) :
    /\ call.calls[k].Minion = minion
    /\ \E j \in 1..Len(call.calls[k].Files) :
         call.calls[k].Files[j].Metadata = f.Metadata

Delivered(f, minion) == DeliveredBy(last, f, minion)

\* Every stored file has reached every minion that wants it, in the one
\* request AnalyzeFiles made to each minion that wants a file.
RoutedToAll ==
  LET stored == lc[last.ScanId].files
  IN \A minion \in Minions :
       /\ \A path \in DOMAIN stored :
            Wanted(stored[path], minion, RoutedInterests) => Delivered(stored[path], minion)
       /\ Cardinality(RequestsTo(minion)) =
            IF \E path \in DOMAIN stored : Wanted(stored[path], minion, RoutedInterests)
            THEN 1 ELSE 0

\* C5: in a ScanFiles call that returns without error, every stored file has
\* been delivered to every minion with an interest that matches it and whose
\* data requirement it meets, and each such minion has received exactly one
\* AnalyzeFiles request.
C5_RoutingComplete ==
  (last.op = "ScanFiles" /\ last.err = NoError) => RoutedToAll

\* C5 as the specification words it, of the files that were stored before
\* the call: a ScanFiles call in which no minion returns an error delivers
\* each of them to every minion with an interest that matches it and whose
\* data requirement it meets.
C5_NoAnalyzerError ==
  [][(/\ last'.op = "ScanFiles"
      /\ ScanExists(lc, last'.ScanId)
      /\ \A k \in 1..Len(last'.calls) : last'.calls[k].answer.err = NoError)
       => \A minion \in Minions : \A path \in DOMAIN lc[last'.ScanId].files :
            LET f == lc[last'.ScanId].files[path]
            IN (f = lc'[last'.ScanId].files[path]
                  /\ Wanted(f, minion, lc[last'.ScanId].interests))
                 => DeliveredBy(last', f, minion)]_vars

\* One stored file has been delivered to both minions by one call.
C5_Witness ==
  /\ last.op = "ScanFiles"
  /\ last.err = NoError
  /\ Len(last.calls) = 2
  /\ \E path \in DOMAIN lc[last.ScanId].files :
       \A minion \in Minions : Delivered(lc[last.ScanId].files[path], minion)

\* C6: no AnalyzeFiles request of a ScanFiles call carries a file twice.
C6_AtMostOnce ==
  last.op = "ScanFiles" =>
    \A k \in 1..Len(last.calls) :
      \A i, j \in 1..Len(last.calls[k].Files) :
        last.calls[k].Files[i].Metadata.Path = last.calls[k].Files[j].Metadata.Path
          => i = j

(***************************************************************************)
(* Iterative interests.                                                    *)
(***************************************************************************)
\* The new interests of the answers to the AnalyzeFiles requests of a call,
\* each with the minion that answered.
Learned(call) ==
  Flatten([k \in 1..Len(call.calls) |->
             [j \in 1..Len(call.calls[k].answer.NewInterests) |->
                MappedInterest(call.calls[k].answer.NewInterests[j], call.calls[k].Minion)]])

PathRegexps(interests) == {interests[k].PathRegexp : k \in 1..Len(interests)}

\* C8: a ScanFiles call appends the new interests of the answers it got to
\* the registry of the scan, each with the minion that answered, and returns
\* them as they came; the registry begins with the initial interests and
\* nothing is taken from it; and ListInterests answers one interest of the
\* registry for each path pattern in it.
C8_Iterative ==
  [][/\ \A id \in DOMAIN lc :
          /\ id \in DOMAIN lc'
          /\ Len(lc'[id].interests) >= Len(lc[id].interests)
          /\ SubSeq(lc'[id].interests, 1, Len(lc[id].interests)) = lc[id].interests
     /\ \A id \in DOMAIN lc' :
          SubSeq(lc'[id].interests, 1, Len(initialInterests)) = initialInterests
     /\ (last'.op = "ScanFiles" /\ ScanExists(lc, last'.ScanId)) =>
          /\ lc'[last'.ScanId].interests = lc[last'.ScanId].interests \o Learned(last')
          /\ last'.err = NoError => last'.NewInterests = InterestsOf(Learned(last'))
     /\ (last'.op = "ListInterests" /\ last'.err = NoError) =>
          LET registry == InterestsOf(lc[last'.ScanId].interests)
          IN /\ PathRegexps(last'.Interests) = PathRegexps(registry)
             /\ Range(last'.Interests) \subseteq Range(registry)
             /\ Len(last'.Interests) = Cardinality(PathRegexps(registry))]_vars

\* ListInterests has answered the pattern a minion came up with in a
\* ScanFiles call, with the data type the minion asked for.
C8_Witness ==
  /\ last.op = "ListInterests"
  /\ last.err = NoError
  /\ Len(lc[last.ScanId].interests) > Len(initialInterests)
  /\ Interest("/b", METADATA_AND_DATA) \in Range(last.Interests)
  /\ Interest("/a", METADATA_AND_DATA) \in Range(last.Interests)

(***************************************************************************)
(* Completion.                                                             *)
(***************************************************************************)
\* C10: no stored file has more bytes than its metadata says, and a
\* ScanFiles call delivers the bytes of a file only when they are all there.
C10_WithinSize ==
  /\ \A id \in DOMAIN lc : \A path \in DOMAIN lc[id].files :
       Len(lc[id].files[path].DataChunks[1].Data) <= GetSize(lc[id].files[path].Metadata)
  /\ last.op = "ScanFiles" =>
       \A k \in 1..Len(last.calls) : \A j \in 1..Len(last.calls[k].Files) :
         last.calls[k].Files[j].Data # <<>> =>
           Len(last.calls[k].Files[j].Data) = GetSize(last.calls[k].Files[j].Metadata)

(***************************************************************************)
(* The goblin: startScan of the docker runner and goblins.SendFiles,       *)
(* against the Overlord.                                                   *)
(***************************************************************************)
\* The trees the goblin can be started on: path -> size of the file.
Trees == UNION {[S -> 0..MaxFileSize] : S \in SUBSET Paths}

\* getDataChunks: the bytes of a file of that size, cut every chunkSize bytes.
getDataChunks(size) ==
  [k \in 1..((size + chunkSize - 1) \div chunkSize) |->
     DataChunk((k - 1) * chunkSize,
               IF k * chunkSize >= size THEN size - (k - 1) * chunkSize ELSE chunkSize)]

\* loadFiles, the walk (lines 203-237): the data type of each file of the
\* tree that matches an interest, which is that of the last interest it
\* matches.
walk(intrs, root) ==
  LET matching(path) == {k \in 1..Len(intrs) :
                           /\ MatchString(intrs[k].PathRegexp, path).err = NoError
                           /\ MatchString(intrs[k].PathRegexp, path).match}
      last_(S) == CHOOSE k \in S : \A j \in S : j <= k
  IN [path \in {q \in DOMAIN root : matching(q) # {}} |->
        intrs[last_(matching(path))].DataType]

\* loadFiles: the single batch it can return, for every order in which
\* Minify returns the interests and the paths map is ranged over.
loadFiles(intrs, root) ==
  UNION {LET paths == walk(minified, root)
         IN {[k \in 1..Len(o) |->
                [Metadata |-> FileMetadata(o[k], root[o[k]]),
                 DataChunks |-> IF paths[o[k]] = METADATA_AND_DATA
                                THEN getDataChunks(root[o[k]]) ELSE <<>>]] :
               o \in Orders(DOMAIN paths)} :
         minified \in Minify(intrs)}

\* What a minion can answer to AnalyzeFiles while the goblin is at work: m1
\* may ask for the data of /b.
GoblinMinionAnswers ==
  [m1 |-> {minionAnswer(<<"finding of m1">>, <<>>),
            minionAnswer(<<"finding of m1">>, <<Interest("/b", METADATA_AND_DATA)>>)},
   m2 |-> {minionAnswer(<<"finding of m2">>, <<>>), minionError}]

CollInit ==
  /\ lc = [id \in {} |-> emptyState]
  /\ \E order \in Orders(Minions) :
       initialInterests = getInterestsFromMinions(order, InitialAnswers)
  /\ uuids = 0
  /\ last = Answer("New", "", NoError, <<>>)
  /\ \E root \in Trees : goblin = [noGoblin EXCEPT !.pc = "startScan", !.root = root]
  /\ pending = noPending

\* startScan up to its call of SendFiles
startScan ==
  /\ goblin.pc = "startScan"
  /\ CreateScan
  /\ goblin' = [goblin EXCEPT !.pc = "SendFiles", !.scanId = last'.ScanId,
                              !.interests = last'.Interests]
  /\ UNCHANGED pending

\* SendFiles from its beginning to its return or to the next SendFiles it
\* calls (lines 337-359); frames holds, for each SendFiles that has not
\* returned, the results of its ScanFiles call.
SendFiles ==
  /\ goblin.pc = "SendFiles"
  /\ \E fs \in loadFiles(goblin.interests, goblin.root) :
       /\ ScanFilesWith(goblin.scanId, fs, GoblinMinionAnswers, MaxGoblinInterests)
       /\ \E g \in {[goblin EXCEPT !.calls = @ + 1, !.sent = Append(@, Len(fs))]} :
            goblin' =
              IF last'.err # NoError
              THEN [g EXCEPT !.pc = "done", !.err = last'.err, !.results = <<>>,
                             !.frames = <<>>]
              ELSE IF Len(last'.NewInterests) > 0
              THEN [g EXCEPT !.interests = last'.NewInterests,
                             !.frames = Append(@, last'.Results)]
              ELSE [g EXCEPT !.pc = "return", !.results = last'.Results]
  /\ UNCHANGED pending

\* The return of a SendFiles to the SendFiles that called it (lines 363-367),
\* or to startScan.
Return ==
  /\ goblin.pc = "return"
  /\ goblin' =
       IF goblin.frames = <<>> THEN [goblin EXCEPT !.pc = "done"]
       ELSE [goblin EXCEPT !.results = @ \o goblin.frames[Len(goblin.frames)],
                           !.frames = SubSeq(@, 1, Len(@) - 1)]
  /\ UNCHANGED <<lc, initialInterests, uuids, last, pending>>

CollNext == startScan \/ SendFiles \/ Return

SpecColl == CollInit /\ [][CollNext]_vars

\* C9: SendFiles ends when it has no more files to send: a ScanFiles call in
\* which it sent no file is its last one, it does not go into SendFiles
\* again after it.
C9_Terminates ==
  \A k \in 1..Len(goblin.sent) :
    goblin.sent[k] = 0 => (k = Len(goblin.sent) /\ goblin.pc # "SendFiles")

(***************************************************************************)
(* Two ScanFiles calls on one scan, served side by side.  grpc serves each *)
(* call on a goroutine of its own and neither the Server nor the state     *)
(* store takes a lock, so the calls interleave wherever one of them reads  *)
(* or writes the cached state.  A step below is the code between two such  *)
(* places.  The files map and the stored Files are shared by every copy of *)
(* the state; the interests slice is copied by getState and written back   *)
(* by setState (append is taken to allocate, as it does on a full slice).  *)
(***************************************************************************)
Procs == {"call1", "call2"}

ConcScan == ScanIdSeq[1]

\* What the two calls are sent.
ConcRequests ==
  {<<>>,
   <<[Metadata |-> FileMetadata("/a", 1), DataChunks |-> <<>>]>>,
   <<[Metadata |-> FileMetadata("/a", 1), DataChunks |-> <<DataChunk(0, 1)>>]>>}

idleCall ==
  [pc |-> "idle", files |-> <<>>, k |-> 0, s |-> <<>>, size |-> 0,
   routedFiles |-> [m \in {} |-> <<>>], order |-> <<>>, idx |-> 0,
   resp |-> noResponse, new |-> <<>>, added |-> <<>>, err |-> NoError]

ConcInit ==
  /\ \E order \in Orders(Minions) :
       /\ initialInterests = getInterestsFromMinions(order, InitialAnswers)
       /\ lc = AddInterests(StateCreateScan([id \in {} |-> emptyState], ConcScan),
                            ConcScan, initialInterests)
  /\ uuids = 1
  /\ last = Answer("CreateScan", ConcScan, NoError, <<>>)
  /\ goblin = noGoblin
  /\ pending = [p \in Procs |-> idleCall]

Frame == UNCHANGED <<initialInterests, uuids, last, goblin>>

\* ScanFiles up to getState in AddFiles (overlord.go 160-166, statemanager.go
\* 54): the scan exists, s is the copy of its state.
ConcGetState(p, files) ==
  /\ pending[p].pc = "idle"
  /\ ScanExists(lc, ConcScan)
  /\ pending' = [pending EXCEPT ![p] =
       [@ EXCEPT !.pc = IF files = <<>> THEN "setState" ELSE "file",
                 !.files = files, !.k = 1, !.s = lc[ConcScan].interests]]
  /\ UNCHANGED lc
  /\ Frame

\* AddFiles, lines 59-72: the stored file of the k-th File, made if the path
\* is new, and the length of its bytes.
ConcFile(p) ==
  /\ pending[p].pc = "file"
  /\ LET f == pending[p].files[pending[p].k]
         path == GetPath(f.Metadata)
         known == path \in DOMAIN lc[ConcScan].files
         currentFile == IF known THEN lc[ConcScan].files[path]
                        ELSE [Metadata |-> f.Metadata,
                              DataChunks |-> <<[Offset |-> 0, Data |-> <<>>]>>]
     IN /\ lc' = IF known THEN lc
                 ELSE [lc EXCEPT ![ConcScan].files = (path :> currentFile) @@ @]
        /\ pending' = [pending EXCEPT ![p] =
             [@ EXCEPT !.pc = "chunks", !.size = Len(currentFile.DataChunks[1].Data)]]
  /\ Frame

\* AddFiles, the loop of lines 78-87 with the size read at line 72: the
\* chunks are checked against size and appended to the bytes stored now.
RECURSIVE concAppend(_, _, _, _)
concAppend(data, size, newChunks, k) ==
  IF k > Len(newChunks) THEN [Data |-> data, err |-> NoError]
  ELSE IF newChunks[k].Offset < size THEN [Data |-> data, err |-> ErrOverlap]
  ELSE IF newChunks[k].Offset # size THEN [Data |-> data, err |-> ErrMissing]
  ELSE concAppend(data \o newChunks[k].Data, size + Len(newChunks[k].Data),
                  newChunks, k + 1)

\* AddFiles, lines 74-87 for the k-th File.
ConcChunks(p) ==
  /\ pending[p].pc = "chunks"
  /\ LET f == pending[p].files[pending[p].k]
         path == GetPath(f.Metadata)
         r == concAppend(lc[ConcScan].files[path].DataChunks[1].Data, pending[p].size,
                         sortSlice(f.DataChunks), 1)
     IN /\ lc' = [lc EXCEPT ![ConcScan].files[path].DataChunks[1].Data = r.Data]
        /\ pending' = [pending EXCEPT ![p] =
             IF r.err # NoError THEN [@ EXCEPT !.pc = "done", !.err = r.err]
             ELSE IF pending[p].k < Len(pending[p].files)
             THEN [@ EXCEPT !.pc = "file", !.k = @ + 1]
             ELSE [@ EXCEPT !.pc = "setState"]]
  /\ Frame

\* AddFiles, line 89: the copy of the state goes back into the cache, and
\* with it the interests it was read with.
ConcSetState(p) ==
  /\ pending[p].pc = "setState"
  /\ lc' = [lc EXCEPT ![ConcScan].interests = pending[p].s]
  /\ pending' = [pending EXCEPT ![p] = [@ EXCEPT !.pc = "route"]]
  /\ Frame

\* ScanFiles, lines 171-203.
ConcRoute(p) ==
  /\ pending[p].pc = "route"
  /\ \E stored \in GetFiles(lc, ConcScan) :
       \E r \in {routeFiles([m \in {} |-> <<>>], stored, GetInterests(lc, ConcScan), 1)} :
         \E order \in Orders(DOMAIN r.routedFiles) :
           pending' = [pending EXCEPT ![p] =
             IF r.err # NoError THEN [@ EXCEPT !.pc = "done", !.err = r.err]
             ELSE IF order = <<>> THEN [@ EXCEPT !.pc = "done"]
             ELSE [@ EXCEPT !.pc = "AnalyzeFiles", !.routedFiles = r.routedFiles,
                            !.order = order, !.idx = 1]]
  /\ UNCHANGED lc
  /\ Frame

\* Where a call goes on when it has added the new interests of a minion.
nextMinion(call) ==
  IF call.idx < Len(call.order)
  THEN [call EXCEPT !.pc = "AnalyzeFiles", !.idx = @ + 1]
  ELSE [call EXCEPT !.pc = "done"]

\* ScanFiles, lines 207-219 for the idx-th minion of the order.
ConcAnalyzeFiles(p) ==
  /\ pending[p].pc = "AnalyzeFiles"
  /\ LET address == pending[p].order[pending[p].idx]
     IN \E minionResp \in MinionAnswers[address] :
          pending' = [pending EXCEPT ![p] =
            IF minionResp.err # NoError
            THEN [@ EXCEPT !.pc = "done", !.err = minionResp.err, !.resp = noResponse]
            ELSE LET call == [@ EXCEPT
                       !.resp = [Results |-> @.Results \o minionResp.Findings,
                                 NewInterests |-> @.NewInterests \o minionResp.NewInterests],
                       !.new = minionResp.NewInterests]
                 IN IF minionResp.NewInterests = <<>> THEN nextMinion(call)
                    ELSE [call EXCEPT !.pc = "AddInterest"]]
  /\ UNCHANGED lc
  /\ Frame

\* AddInterest, line 122: s is the copy of the state.
ConcAddInterestGet(p) ==
  /\ pending[p].pc = "AddInterest"
  /\ pending' = [pending EXCEPT ![p] =
       [@ EXCEPT !.pc = "append", !.s = lc[ConcScan].interests]]
  /\ UNCHANGED lc
  /\ Frame

\* AddInterest, lines 123-127: the interest is appended to the copy and the
\* copy goes back into the cache.
ConcAddInterestSet(p) ==
  /\ pending[p].pc = "append"
  /\ LET mapped == MappedInterest(Head(pending[p].new),
                                  pending[p].order[pending[p].idx])
         call == [pending[p] EXCEPT !.new = Tail(@), !.added = Append(@, mapped)]
     IN /\ lc' = [lc EXCEPT ![ConcScan].interests = Append(pending[p].s, mapped)]
        /\ pending' = [pending EXCEPT ![p] =
             IF call.new = <<>> THEN nextMinion(call)
             ELSE [call EXCEPT !.pc = "AddInterest"]]
  /\ Frame

ConcNext ==
  \E p \in Procs :
    \/ \E files \in ConcRequests : ConcGetState(p, files)
    \/ ConcFile(p)
    \/ ConcChunks(p)
    \/ ConcSetState(p)
    \/ ConcRoute(p)
    \/ ConcAnalyzeFiles(p)
    \/ ConcAddInterestGet(p)
    \/ ConcAddInterestSet(p)

SpecConc == ConcInit /\ [][ConcNext]_vars

\* C7: when the calls served side by side have returned, the scan is as one
\* call after the other leaves it: every interest a call that returned
\* without error has added is in the registry, after the initial interests
\* and as often as it was added, and the bytes of every stored file are the
\* bytes of the file, each once.
C7_Serialised ==
  (\A p \in Procs : pending[p].pc = "done") =>
    LET registry == lc[ConcScan].interests
        addedBy(x) == {<<p, k>> \in Procs \X (1..MaxInterests) :
                         /\ pending[p].err = NoError
                         /\ k <= Len(pending[p].added)
                         /\ pending[p].added[k] = x}
    IN /\ SubSeq(registry, 1, Len(initialInterests)) = initialInterests
       /\ \A p \in Procs : \A k \in 1..Len(pending[p].added) :
            Occurrences(pending[p].added[k], registry)
              >= Cardinality(addedBy(pending[p].added[k]))
       /\ \A path \in DOMAIN lc[ConcScan].files :
            StoredData(lc, ConcScan, path)
              = ChunkData(0, Len(StoredData(lc, ConcScan, path)))

(***************************************************************************)
(* Stored bytes over the calls of a scan.                                  *)
(***************************************************************************)
\* The first sequence is the beginning of the second.
IsPrefix(s, t) == Len(s) <= Len(t) /\ SubSeq(t, 1, Len(s)) = s

\* C11: no call, whether it succeeds or fails, takes a stored file away,
\* makes it shorter or changes a byte it holds: what is stored for a path
\* before a step is the beginning of what is stored for it after the step.
C11_AppendOnly ==
  [][\A id \in DOMAIN lc : \A path \in DOMAIN lc[id].files :
       /\ id \in DOMAIN lc'
       /\ path \in DOMAIN lc'[id].files
       /\ IsPrefix(StoredData(lc, id, path), StoredData(lc', id, path))]_vars

\* A file has grown over two calls, and a call on its scan has then failed.
C11_Witness ==
  /\ last.op = "ScanFiles"
  /\ last.err \in {ErrOverlap, ErrMissing}
  /\ \E path \in DOMAIN lc[last.ScanId].files :
       Len(StoredData(lc, last.ScanId, path)) = 2

(***************************************************************************)
(* Whole files: a file cut into chunks as the goblin cuts it, sent in one  *)
(* File of one ScanFiles call with its chunks in any order.  pending holds *)
(* the request of the call that last holds the answer of.                  *)
(***************************************************************************)
WholeFiles ==
  {[Metadata |-> FileMetadata(path, size),
    DataChunks |-> [k \in 1..Len(o) |-> getDataChunks(size)[o[k]]]] :
     <<path, size, o>> \in
       {t \in Paths \X (0..MaxFileSize) \X
                UNION {Orders(1..n) : n \in 0..MaxFileSize} :
          Range(t[3]) = 1..Len(getDataChunks(t[2]))}}

WholeScanFiles(scanID, f) ==
  /\ ScanFiles(scanID, <<f>>)
  /\ pending' = [request |-> <<f>>]
  /\ UNCHANGED goblin

WholeNext ==
  \/ CreateScan /\ UNCHANGED <<goblin, pending>>
  \/ \E scanID \in DOMAIN lc, f \in WholeFiles : WholeScanFiles(scanID, f)

SpecWhole == Init /\ [][WholeNext]_vars

\* The bytes a call has sent to the minion for the file, one for each time
\* the file is in a request.
PayloadsOf(call, metadata, minion) ==
  {<<k, j>> \in (1..Len(call.calls)) \X (1..(2 * MaxInterests)) :
     /\ call.calls[k].Minion = minion
     /\ j <= Len(call.calls[k].Files)
     /\ call.calls[k].Files[j].Metadata = metadata}

PayloadData(call, kj) == call.calls[kj[1]].Files[kj[2]].Data

\* The minions with an interest in the data of the path.
WantData(path, registry) ==
  {registry[k].Minion : k \in
     {j \in 1..Len(registry) :
        /\ registry[j].Interest.DataType = METADATA_AND_DATA
        /\ MatchString(registry[j].Interest.PathRegexp, path).match}}

\* The call has stored the whole file it was sent for a path that was not
\* stored.
WholeStored(f) ==
  LET id == last'.ScanId
      path == GetPath(f.Metadata)
  IN /\ last'.err \notin {ErrOverlap, ErrMissing}
     /\ last'.failed = noFailure
     /\ path \in DOMAIN lc'[id].files
     /\ lc'[id].files[path].Metadata = f.Metadata
     /\ StoredData(lc', id, path) = ChunkData(0, GetSize(f.Metadata))
     /\ Complete(lc'[id].files[path])

\* The call has sent the minion the bytes of the file, all of them in one
\* payload.
WholeDelivered(f, minion) ==
  \E kj \in PayloadsOf(last', f.Metadata, minion) :
    PayloadData(last', kj) = ChunkData(0, GetSize(f.Metadata))

PartFiles ==
  {[Metadata |-> FileMetadata(path, size), DataChunks |-> cs] :
     path \in Paths, size \in 1..MaxFileSize,
     cs \in {<<>>} \cup {<<DataChunk(o, 1)>> : o \in 0..MaxOffset}}

PartNext ==
  \/ CreateScan /\ UNCHANGED <<goblin, pending>>
  \/ \E scanID \in DOMAIN lc, f \in PartFiles :
       ScanFiles(scanID, <<f>>) /\ UNCHANGED <<goblin, pending>>

SpecParts == Init /\ [][PartNext]_vars

\* The number of interests of the minion in the metadata alone of the path.
WantMetadata(path, minion, registry) ==
  Cardinality({k \in 1..Len(registry) :
                 /\ registry[k].Minion = minion
                 /\ registry[k].Interest.DataType = METADATA
                 /\ MatchString(registry[k].Interest.PathRegexp, path).match})

\* The call has sent the minion nothing of the file for its interest in
\* data: no bytes, and the file no more often than the minion has interests
\* in its metadata alone.
Withheld(f, minion, registry) ==
  /\ \A kj \in PayloadsOf(last', f.Metadata, minion) : PayloadData(last', kj) = <<>>
  /\ Cardinality(PayloadsOf(last', f.Metadata, minion)) <=
       WantMetadata(GetPath(f.Metadata), minion, registry)

\* The call has sent the minion all the bytes stored for the file.
SentAssembled(f, minion) ==
  \E kj \in PayloadsOf(last', f.Metadata, minion) :
    /\ PayloadData(last', kj) = f.DataChunks[1].Data
    /\ Len(PayloadData(last', kj)) = GetSize(f.Metadata)

\* The call has made complete a file that was stored incomplete.
Completes(id, path) ==
  /\ path \in DOMAIN lc[id].files
  /\ ~Complete(lc[id].files[path])
  /\ Complete(lc'[id].files[path])

WithoutData(call, metadata, minion) ==
  {kj \in PayloadsOf(call, metadata, minion) : PayloadData(call, kj) = <<>>}

\* C14: a ScanFiles call sends a minion it calls each stored file once
\* without bytes for each of the minion's interests in metadata alone that
\* matches the path, whether the file has no bytes, some of them or all,
\* and no file leaves the store.  (Every file here has a size of one byte at
\* least, so a payload without bytes is not a complete file.)
C14_MetadataOnly ==
  [][last'.op = "ScanFiles" =>
       LET id == last'.ScanId
       IN /\ DOMAIN lc[id].files \subseteq DOMAIN lc'[id].files
          /\ \A path \in DOMAIN lc'[id].files : \A minion \in Minions :
               (\E k \in 1..Len(last'.calls) : last'.calls[k].Minion = minion) =>
                 Cardinality(WithoutData(last', lc'[id].files[path].Metadata, minion)) =
                   WantMetadata(path, minion, lc[id].interests)]_vars

\* m2, interested in the metadata of /b, has been sent /b without bytes
\* while one of its two bytes is stored, and /b is still stored.
C14_Witness ==
  /\ last.op = "ScanFiles"
  /\ "/b" \in DOMAIN lc[last.ScanId].files
  /\ GetSize(lc[last.ScanId].files["/b"].Metadata) = 2
  /\ Len(StoredData(lc, last.ScanId, "/b")) = 1
  /\ WithoutData(last, lc[last.ScanId].files["/b"].Metadata, "m2") # {}

(***************************************************************************)
(* interests.IsMatching on its own: pending holds the interest and the     *)
(* file it is called with, last what it returns.                           *)
(***************************************************************************)
MatchInterests == {Interest(pattern, dt) : pattern \in Patterns, dt \in DataTypes}

MatchFiles ==
  {[Metadata |-> metadata, DataChunks |-> cs] :
     metadata \in {NilMetadata} \cup {FileMetadata(path, size) :
                                        path \in Paths, size \in 0..MaxSize},
     cs \in ChunkSeqs(MaxChunks)}

MatchInit ==
  /\ lc = [id \in {} |-> emptyState]
  /\ initialInterests = <<>>
  /\ uuids = 0
  /\ last = [op |-> "New", match |-> FALSE, err |-> NoError]
  /\ goblin = noGoblin
  /\ pending \in {[interest |-> i, file |-> f] : i \in MatchInterests, f \in MatchFiles}

IsMatchingCall ==
  /\ last.op = "New"
  /\ \E r \in {IsMatching(pending.interest, pending.file)} :
       last' = [op |-> "IsMatching", match |-> r.match, err |-> r.err]
  /\ UNCHANGED <<lc, initialInterests, uuids, goblin, pending>>

MatchNext == IsMatchingCall

SpecMatch == MatchInit /\ [][MatchNext]_vars

\* The file has metadata, and the pattern of the interest is found in its
\* path.
PathFound(interest, file) ==
  /\ file.Metadata # NilMetadata
  /\ MatchString(interest.PathRegexp, GetPath(file.Metadata)).err = NoError
  /\ MatchString(interest.PathRegexp, GetPath(file.Metadata)).match

\* C15: IsMatching answers true exactly when the file has metadata, the
\* pattern is found in its path, and the interest is in metadata alone or is
\* in metadata and data and the file has at least one data chunk, with or
\* without bytes in it; a file without metadata is an error.
C15_IsMatching ==
  last.op = "IsMatching" =>
    /\ last.match <=>
         /\ PathFound(pending.interest, pending.file)
         /\ \/ pending.interest.DataType = METADATA
            \/ /\ pending.interest.DataType = METADATA_AND_DATA
               /\ Len(pending.file.DataChunks) > 0
    /\ pending.file.Metadata = NilMetadata => (last.err = ErrNoMetadata /\ ~last.match)
    /\ last.err # NoError => ~last.match

\* C15 as the specification words it: an interest in metadata and data
\* needs a file with at least one byte of data.
C15_NeedsAByte ==
  last.op = "IsMatching" =>
    (last.match <=>
       /\ PathFound(pending.interest, pending.file)
       /\ \/ pending.interest.DataType = METADATA
          \/ /\ pending.interest.DataType = METADATA_AND_DATA
             /\ TotalLen(pending.file.DataChunks) > 0)

\* An interest in metadata and data has matched a file with a byte of data.
C15_Witness ==
  /\ last.op = "IsMatching"
  /\ last.match
  /\ pending.interest.DataType = METADATA_AND_DATA
  /\ TotalLen(pending.file.DataChunks) > 0

(***************************************************************************)
(* A pattern that does not compile: m1 may answer AnalyzeFiles with an     *)
(* interest whose path pattern is "(".                                     *)
(***************************************************************************)
BrokenInterest == Interest("(", METADATA)

RegexpMinionAnswers ==
  [m1 |-> {minionAnswer(<<"finding of m1">>, <<>>),
            minionAnswer(<<"finding of m1">>, <<BrokenInterest>>)},
   m2 |-> {minionAnswer(<<"finding of m2">>, <<>>)}]

RegexpNext ==
  \/ CreateScan /\ UNCHANGED <<goblin, pending>>
  \/ \E scanID \in DOMAIN lc, files \in Requests :
       /\ ScanFilesWith(scanID, files, RegexpMinionAnswers, MaxInterests)
       /\ UNCHANGED <<goblin, pending>>

SpecRegexp == Init /\ [][RegexpNext]_vars

\* The registry holds an interest whose pattern does not compile.
HasBrokenPattern(registry) ==
  \E k \in 1..Len(registry) : ~RegexpCompiles(registry[k].Interest.PathRegexp)

\* IsMatching returns an error, and no match, for a pattern that does not
\* compile, whatever the data type of the interest and the file.
BrokenPatternIsError ==
  \A f \in {g \in MatchFiles : g.Metadata # NilMetadata}, dt \in DataTypes :
    IsMatching(Interest("(", dt), f) = [match |-> FALSE, err |-> ErrRegexp]

\* C16: IsMatching returns an error, and no match, for an interest whose
\* pattern does not compile, whatever the file with metadata; and a
\* ScanFiles call that has stored its files and routes at least one stored
\* file against such an interest returns that error and calls no minion.
C16_BrokenPattern ==
  [][/\ BrokenPatternIsError
     /\ (/\ last'.op = "ScanFiles"
         /\ last'.err \notin {ErrOverlap, ErrMissing}
         /\ HasBrokenPattern(lc[last'.ScanId].interests)
         /\ DOMAIN lc'[last'.ScanId].files # {})
          => (last'.err = ErrRegexp /\ last'.calls = <<>>)]_vars

\* A ScanFiles call has failed on the pattern a minion came up with in an
\* earlier call.
C16_Witness ==
  /\ last.op = "ScanFiles"
  /\ last.err = ErrRegexp
  /\ HasBrokenPattern(lc[last.ScanId].interests)
  /\ DOMAIN lc[last.ScanId].files # {}

(***************************************************************************)
(* interests.Minify on its own: pending holds the interests it is given,   *)
(* last the slice it returns.                                              *)
(***************************************************************************)
ContentPatterns == {"", "x", "y"}

MinifyInterests ==
  {[PathRegexp |-> pattern, ContentRegexp |-> content, DataType |-> dt] :
     pattern \in {"/a", "/"}, content \in ContentPatterns, dt \in DataTypes}

MinifyInit ==
  /\ lc = [id \in {} |-> emptyState]
  /\ initialInterests = <<>>
  /\ uuids = 0
  /\ last = [op |-> "New", ret |-> <<>>]
  /\ goblin = noGoblin
  /\ pending \in {[interests |-> S] :
                    S \in UNION {[1..n -> MinifyInterests] : n \in 0..MaxMinify}}

MinifyCall ==
  /\ last.op = "New"
  /\ \E ret \in Minify(pending.interests) : last' = [op |-> "Minify", ret |-> ret]
  /\ UNCHANGED <<lc, initialInterests, uuids, goblin, pending>>

MinifyNext == MinifyCall

SpecMinify == MinifyInit /\ [][MinifyNext]_vars

\* The paths one of the interests accepts.
Accepted(interests) ==
  {path \in Paths : \E k \in 1..Len(interests) :
                       MatchString(interests[k].PathRegexp, path).match}

\* C17: Minify returns one of the interests it is given for each path
\* pattern among them and nothing else, so that what it returns accepts the
\* same paths; and the interest it returns for a pattern is one in metadata
\* and data exactly when one of the interests given with that pattern is,
\* wherever it stands among them.
C17_Minify ==
  last.op = "Minify" =>
    /\ PathRegexps(last.ret) = PathRegexps(pending.interests)
    /\ Len(last.ret) = Cardinality(PathRegexps(pending.interests))
    /\ Range(last.ret) \subseteq Range(pending.interests)
    /\ Accepted(last.ret) = Accepted(pending.interests)
    /\ \A k \in 1..Len(last.ret) :
         last.ret[k].DataType = METADATA_AND_DATA <=>
           \E j \in 1..Len(pending.interests) :
             /\ pending.interests[j].PathRegexp = last.ret[k].PathRegexp
             /\ pending.interests[j].DataType = METADATA_AND_DATA

\* Of three interests with one pattern, the one in metadata and data
\* standing between the two others, Minify has returned that one alone.
C17_Witness ==
  /\ last.op = "Minify"
  /\ Len(pending.interests) = 3
  /\ PathRegexps(pending.interests) = {"/a"}
  /\ pending.interests[1].DataType = METADATA
  /\ pending.interests[2].DataType = METADATA_AND_DATA
  /\ pending.interests[3].DataType = METADATA
  /\ last.ret = <<pending.interests[2]>>

\* Minify has returned an interest with the path pattern and the content
\* pattern of this one.
Kept(interest) ==
  \E k \in 1..Len(last.ret) :
    /\ last.ret[k].PathRegexp = interest.PathRegexp
    /\ last.ret[k].ContentRegexp = interest.ContentRegexp

\* C18: of two interests with one path pattern and two different content
\* patterns, none of them empty, Minify keeps both, and it returns the
\* interests it keeps as they were given.
C18_ContentPattern ==
  last.op = "Minify" =>
    /\ \A i, j \in 1..Len(pending.interests) :
         (/\ pending.interests[i].PathRegexp = pending.interests[j].PathRegexp
          /\ pending.interests[i].ContentRegexp # ""
          /\ pending.interests[j].ContentRegexp # ""
          /\ pending.interests[i].ContentRegexp # pending.interests[j].ContentRegexp)
           => (Kept(pending.interests[i]) /\ Kept(pending.interests[j]))
    /\ Range(last.ret) \subseteq Range(pending.interests)

(***************************************************************************)
(* Two scans of one Overlord.                                              *)
(***************************************************************************)
TwoScanIds == <<"s1", "s2">>

\* What the scans are sent: nothing, a file without bytes, a file whole.
ScanRequests ==
  {<<>>,
   <<[Metadata |-> FileMetadata("/a", 0), DataChunks |-> <<>>]>>,
   <<[Metadata |-> FileMetadata("/b", 1), DataChunks |-> <<DataChunk(0, 1)>>]>>}

ScansNext ==
  \/ CreateScanWith(TwoScanIds) /\ UNCHANGED <<goblin, pending>>
  \/ \E scanId \in DOMAIN lc :
       ListInterests(scanId, "") /\ UNCHANGED <<goblin, pending>>
  \/ \E scanID \in DOMAIN lc, files \in ScanRequests :
       ScanFiles(scanID, files) /\ UNCHANGED <<goblin, pending>>

SpecScans == Init /\ [][ScansNext]_vars

\* The interests are, as a set, what Minify makes of the initial interests
\* of the Overlord: one of them for each path pattern, in metadata and data
\* when one of that pattern is.
MinifiedInitial(interests) ==
  LET initial == InterestsOf(initialInterests)
  IN /\ PathRegexps(interests) = PathRegexps(initial)
     /\ Len(interests) = Cardinality(PathRegexps(initial))
     /\ Range(interests) \subseteq Range(initial)
     /\ \A k \in 1..Len(interests) :
          interests[k].DataType = METADATA_AND_DATA <=>
            \E j \in 1..Len(initial) :
              /\ initial[j].PathRegexp = interests[k].PathRegexp
              /\ initial[j].DataType = METADATA_AND_DATA

\* C19: a CreateScan call returns an id no scan has, the scan of that id
\* exists after it, with no file and the initial interests registered; the
\* call returns the initial interests minified, calls no minion and
\* leaves the other scans as they are.
C19_CreateScan ==
  [][last'.op = "CreateScan" =>
       /\ last'.ScanId \notin DOMAIN lc
       /\ \A k \in 1..uuids : TwoScanIds[k] # last'.ScanId
       /\ ScanExists(lc', last'.ScanId)
       /\ lc'[last'.ScanId] = [interests |-> initialInterests,
                               files |-> emptyState.files]
       /\ last'.err = NoError
       /\ MinifiedInitial(last'.Interests)
       /\ last'.calls = <<>>
       /\ \A id \in DOMAIN lc : lc'[id] = lc[id]]_vars

\* A second scan has been created after the first one had stored a file and
\* learned interests.
C19_Witness ==
  /\ last.op = "CreateScan"
  /\ last.ScanId = "s2"
  /\ DOMAIN lc = {"s1", "s2"}
  /\ DOMAIN lc["s1"].files # {}
  /\ Len(lc["s1"].interests) > Len(initialInterests)

(***************************************************************************)
(* Calls with the id of no scan.                                           *)
(***************************************************************************)
\* The call was given an id no scan has, and has created no scan, changed
\* none, called no minion and returned nothing.
NothingDone ==
  /\ lc' = lc
  /\ last'.calls = <<>>
  /\ last'.Interests = <<>>
  /\ last'.Results = <<>>
  /\ last'.NewInterests = <<>>

\* C20: a ScanFiles call, and a ListInterests call without a page token,
\* with the id of no scan returns the unknown-scan error, and a
\* ListInterests call with a page token returns the error of the token; all
\* of them create no scan, change none and call no minion.
C20_UnknownScan ==
  [][(last'.op \in {"ScanFiles", "ListInterests"} /\ ~ScanExists(lc, last'.ScanId)) =>
       /\ NothingDone
       /\ last'.err = IF last'.op = "ListInterests" /\ last'.PageToken # ""
                      THEN ErrToken ELSE ErrUnknownScan]_vars

\* C20 as the specification words it: every such call returns the
\* unknown-scan error.
C20_AlwaysNotFound ==
  [][(last'.op \in {"ScanFiles", "ListInterests"} /\ ~ScanExists(lc, last'.ScanId)) =>
       last'.err = ErrUnknownScan]_vars

\* ListInterests without a page token has been refused for the id of no
\* scan while a scan with a stored file exists.
C20_Witness ==
  /\ last.op = "ListInterests"
  /\ last.PageToken = ""
  /\ last.ScanId = UnknownScan
  /\ last.err = ErrUnknownScan
  /\ \E id \in DOMAIN lc : DOMAIN lc[id].files # {}

(***************************************************************************)
(* Page tokens.                                                            *)
(***************************************************************************)
\* C21: a ListInterests call with a page token returns the error of the
\* token and no interests, whether the scan exists or not; no ListInterests
\* call changes a scan; and a ListInterests call that succeeds returns no
\* next page token.
C21_PageToken ==
  [][last'.op = "ListInterests" =>
       /\ lc' = lc
       /\ last'.PageToken # "" => (last'.err = ErrToken /\ last'.Interests = <<>>)
       /\ last'.err = NoError => last'.NextPageToken = ""]_vars

\* ListInterests has been refused for its page token on a scan that exists
\* and holds a file.
C21_Witness ==
  /\ last.op = "ListInterests"
  /\ last.PageToken # ""
  /\ last.err = ErrToken
  /\ ScanExists(lc, last.ScanId)
  /\ DOMAIN lc[last.ScanId].files # {}

(***************************************************************************)
(* The registry of a scan while calls on it are served side by side.       *)
(***************************************************************************)
\* C22: the number of interests in the registry of a scan never goes down,
\* also while two ScanFiles calls on the scan are served side by side.
C22_RegistryNeverShrinks ==
  [][\A id \in DOMAIN lc :
       /\ id \in DOMAIN lc'
       /\ Len(lc'[id].interests) >= Len(lc[id].interests)]_vars

\* The Overlord with a scan made and two ScanFiles calls to serve, and no
\* initial interest in /b: that pattern comes with the new interests of m1
\* alone.  ListInterests calls are served in between.
OverlapInitialAnswers ==
  [m1 |-> <<Interest("/a", METADATA_AND_DATA)>>, m2 |-> <<>>]

OverlapInit ==
  /\ \E order \in Orders(Minions) :
       /\ initialInterests = getInterestsFromMinions(order, OverlapInitialAnswers)
       /\ lc = AddInterests(StateCreateScan([id \in {} |-> emptyState], ConcScan),
                            ConcScan, initialInterests)
  /\ uuids = 1
  /\ last = Answer("CreateScan", ConcScan, NoError, <<>>)
  /\ goblin = noGoblin
  /\ pending = [p \in Procs |-> idleCall]

\* Server.ListInterests on the scan, between two steps of the calls.
ConcListInterests ==
  /\ ListInterests(ConcScan, "")
  /\ UNCHANGED <<goblin, pending>>

OverlapNext == ConcNext \/ ConcListInterests

SpecOverlap == OverlapInit /\ [][OverlapNext]_vars

\* The interests whose AddInterest has returned in one of the calls.
AddedSoFar ==
  UNION {Range(pending[p].added) : p \in Procs}

\* C23: a ListInterests call answers the path pattern of every interest
\* whose AddInterest had returned when it began, also while ScanFiles calls
\* on the scan are under way.
C23_ListSeesAdded ==
  [][(last'.op = "ListInterests" /\ pending' = pending) =>
       \A mapped \in AddedSoFar :
         mapped.Interest.PathRegexp \in PathRegexps(last'.Interests)]_vars

(***************************************************************************)
(* A ScanFiles call that begins when the two calls served side by side     *)
(* have returned.  last holds the interests added before it began.         *)
(***************************************************************************)
ConcLaterCall(p, files) ==
  /\ last.op # "LaterScanFiles"
  /\ \A q \in Procs : pending[q].pc = "done"
  /\ ScanExists(lc, ConcScan)
  /\ last' = [known |-> AddedSoFar] @@ Answer("LaterScanFiles", ConcScan, NoError, <<>>)
  /\ pending' = [pending EXCEPT ![p] =
       [idleCall EXCEPT !.pc = IF files = <<>> THEN "setState" ELSE "file",
                        !.files = files, !.k = 1, !.s = lc[ConcScan].interests]]
  /\ UNCHANGED <<lc, initialInterests, uuids, goblin>>

LaterNext ==
  \/ ConcNext
  \/ \E p \in Procs, files \in ConcRequests : ConcLaterCall(p, files)

SpecLater == ConcInit /\ [][LaterNext]_vars

\* C24: the interests added to the scan while a routing pass was under
\* way, by the call of that pass or by a call served beside it, are in the
\* registry a later call routes with.
C24_LearnedRoutesLater ==
  last.op = "LaterScanFiles" =>
    \A p \in Procs :
      pending[p].pc = "route" => last.known \subseteq Range(lc[ConcScan].interests)

(***************************************************************************)
(* The cache of state.Local over time.  pending holds the clock, the       *)
(* expiration of each item of the cache (go-cache: SetDefault sets it to    *)
(* now + DefaultExpiration, Get finds no item once now is later), the time  *)
(* each scan was made and last used, and the call that is being served: a   *)
(* ScanFiles or ListInterests call is served in two steps, the test         *)
(* ScanExists and the rest, and time can pass in between.                   *)
(***************************************************************************)
noCall == [pc |-> "none", ScanId |-> "", files |-> <<>>]

TtlRequests ==
  {<<>>,
   <<[Metadata |-> FileMetadata("/a", 0), DataChunks |-> <<>>]>>,
   <<[Metadata |-> FileMetadata("/a", 1), DataChunks |-> <<DataChunk(1, 1)>>]>>}

TtlMinionAnswers ==
  [m1 |-> {minionAnswer(<<"finding of m1">>, <<>>)},
   m2 |-> {minionAnswer(<<"finding of m2">>, <<>>)}]

TtlInit ==
  /\ lc = [id \in {} |-> emptyState]
  /\ \E order \in Orders(Minions) :
       initialInterests = getInterestsFromMinions(order, InitialAnswers)
  /\ uuids = 0
  /\ last = Answer("New", "", NoError, <<>>)
  /\ goblin = noGoblin
  /\ pending = [now |-> 0, Expiration |-> [id \in {} |-> 0],
                created |-> [id \in {} |-> 0], lastOp |-> [id \in {} |-> 0],
                call |-> noCall]

\* The item is in the cache, expired or not.
AlivePresent(id) == id \in DOMAIN lc

\* cache.Get finds the item: it is in the cache and has not expired.
Alive(id) == id \in DOMAIN lc /\ ~(pending.now > pending.Expiration[id])

\* The process has gone down on a panic.
Crashed == last.err = Panic

\* SetDefault of a cache whose items never live past CleanupInterval.
TouchedCapped(id, set) ==
  [pending EXCEPT !.call = noCall,
                  !.lastOp = (id :> pending.now) @@ @,
                  !.Expiration =
                    IF ~set THEN @
                    ELSE IF id \notin DOMAIN pending.created
                    THEN (id :> pending.now + DefaultExpiration) @@ @
                    ELSE IF pending.now + DefaultExpiration
                              > pending.created[id] + CleanupInterval
                    THEN (id :> pending.created[id] + CleanupInterval) @@ @
                    ELSE (id :> pending.now + DefaultExpiration) @@ @]

\* What SetDefault and the use of the scan by a call leave in pending.
Touched(id, set) ==
  [pending EXCEPT !.call = noCall,
                  !.lastOp = (id :> pending.now) @@ @,
                  !.Expiration = IF set THEN (id :> pending.now + DefaultExpiration) @@ @
                                 ELSE @]

TtlTick ==
  /\ ~Crashed
  /\ pending.now < MaxTime
  /\ pending' = [pending EXCEPT !.now = @ + 1]
  /\ UNCHANGED <<lc, initialInterests, uuids, last, goblin>>

\* The janitor of the cache: DeleteExpired every CleanupInterval.
TtlJanitor ==
  /\ ~Crashed
  /\ pending.now > 0
  /\ pending.now % CleanupInterval = 0
  /\ \E id \in DOMAIN lc : ~Alive(id)
  /\ lc' = [id \in {x \in DOMAIN lc : Alive(x)} |-> lc[id]]
  /\ UNCHANGED <<initialInterests, uuids, last, goblin, pending>>

TtlCreateScan ==
  /\ ~Crashed
  /\ pending.call = noCall
  /\ CreateScan
  /\ pending' = [Touched(last'.ScanId, TRUE) EXCEPT
                   !.created = (last'.ScanId :> pending.now) @@ @]
  /\ UNCHANGED goblin

\* ScanFiles and ListInterests, the test ScanExists (overlord.go 162, 143).
TtlBegin(op, scanId, files) ==
  /\ ~Crashed
  /\ pending.call = noCall
  /\ IF Alive(scanId)
     THEN /\ pending' = [pending EXCEPT
                           !.call = [pc |-> op, ScanId |-> scanId, files |-> files],
                           !.lastOp = (scanId :> pending.now) @@ @]
          /\ UNCHANGED last
     ELSE /\ last' = IF op = "ScanFiles"
                     THEN Answer("ScanFiles", scanId, ErrUnknownScan, <<>>)
                     ELSE ListAnswer(scanId, "", ErrUnknownScan, <<>>)
          /\ UNCHANGED pending
  /\ UNCHANGED <<lc, initialInterests, uuids, goblin>>

\* ScanFiles from AddFiles on (overlord.go 166-227): getState goes down on
\* a panic when Get finds no item (statemanager.go 160-161: s.(state) with
\* s nil); AddFiles that succeeds, and AddInterest, set the item again.
TtlScanFiles ==
  /\ ~Crashed
  /\ pending.call.pc = "ScanFiles"
  /\ IF Alive(pending.call.ScanId)
     THEN /\ ScanFilesWith(pending.call.ScanId, pending.call.files,
                           TtlMinionAnswers, MaxInterests)
          /\ pending' = Touched(pending.call.ScanId,
                                last'.err \notin {ErrOverlap, ErrMissing})
     ELSE /\ last' = Answer("ScanFiles", pending.call.ScanId, Panic, <<>>)
          /\ pending' = [pending EXCEPT !.call = noCall]
          /\ UNCHANGED <<lc, initialInterests, uuids>>
  /\ UNCHANGED goblin

\* ListInterests from GetInterests on (overlord.go 146-155).
TtlListInterests ==
  /\ ~Crashed
  /\ pending.call.pc = "ListInterests"
  /\ IF Alive(pending.call.ScanId)
     THEN /\ ListInterests(pending.call.ScanId, "")
          /\ pending' = Touched(pending.call.ScanId, FALSE)
     ELSE /\ last' = ListAnswer(pending.call.ScanId, "", Panic, <<>>)
          /\ pending' = [pending EXCEPT !.call = noCall]
          /\ UNCHANGED <<lc, initialInterests, uuids>>
  /\ UNCHANGED goblin

\* Local.AddInterest, called on the store.
LocalAddInterest(scanID, interest, minion) ==
  /\ ~Crashed
  /\ pending.call = noCall
  /\ IF Alive(scanID)
     THEN /\ Len(lc[scanID].interests) < MaxInterests
          /\ lc' = AddInterest(lc, scanID, interest, minion)
          /\ last' = Answer("AddInterest", scanID, NoError, <<>>)
          /\ pending' = Touched(scanID, TRUE)
     ELSE /\ last' = Answer("AddInterest", scanID, Panic, <<>>)
          /\ UNCHANGED <<lc, pending>>
  /\ UNCHANGED <<initialInterests, uuids, goblin>>

TtlNext ==
  \/ TtlTick
  \/ TtlJanitor
  \/ TtlCreateScan
  \/ \E scanId \in DOMAIN pending.created \cup {UnknownScan} :
       \/ \E files \in TtlRequests : TtlBegin("ScanFiles", scanId, files)
       \/ TtlBegin("ListInterests", scanId, <<>>)
       \/ LocalAddInterest(scanId, Interest("/b", METADATA), "m1")
  \/ TtlScanFiles
  \/ TtlListInterests

SpecTtl == TtlInit /\ [][TtlNext]_vars

\* C25: a ScanFiles or ListInterests call whose scan is evicted after the
\* call's test of existence and before its next access to the store ends
\* with the error of an unknown scan, and leaves the store as it was.
C25_EvictedWhilePending ==
  [][(pending.call.pc # "none" /\ ~Alive(pending.call.ScanId)
        /\ pending'.call.pc = "none")
       => (last'.err = ErrUnknownScan /\ lc' = lc)]_vars

\* C26: AddInterest for a scan id that is not in the store fails with an
\* error and creates no state: the scan exists neither before nor after.
C26_AddInterestAbsent ==
  [][(last' # last /\ last'.op = "AddInterest" /\ ~Alive(last'.ScanId))
       => /\ last'.err \notin {NoError, Panic}
          /\ lc' = lc
          /\ pending' = pending]_vars

\* No call has used the scan for longer than the expiration of an item.
Idle(id) ==
  /\ id \in DOMAIN pending.lastOp
  /\ pending.now > pending.lastOp[id] + DefaultExpiration

\* The answer to a call with the id of no scan, for the id given.
NotFound(op, id) ==
  IF op = "ScanFiles" THEN Answer("ScanFiles", id, ErrUnknownScan, <<>>)
  ELSE ListAnswer(id, "", ErrUnknownScan, <<>>)

\* C27: a scan no call has used for longer than the idle time of 5 minutes
\* is expired: ScanExists is false from then on, no ScanFiles or
\* ListInterests call with its id gets past the test of existence, and the
\* answer is the unknown scan error with no interests and no results, the
\* one an id that never existed gets; the store is left as it is.
C27_IdleExpires ==
  [][/\ (\A id \in DOMAIN pending.lastOp : Idle(id) => ~Alive(id))'
     /\ (pending.call = noCall /\ pending'.call # noCall)
          => ~Idle(pending'.call.ScanId)
     /\ (pending.call = noCall /\ last' # last
            /\ last'.op \in {"ScanFiles", "ListInterests"})
          => /\ last' = NotFound(last'.op, last'.ScanId)
             /\ lc' = lc
             /\ pending' = pending]_vars

C27_Witness ==
  /\ last = NotFound("ScanFiles", last.ScanId)
  /\ Idle(last.ScanId)
  /\ last.ScanId \in DOMAIN lc
  /\ DOMAIN lc[last.ScanId].files # {}
  /\ lc[last.ScanId].interests # <<>>

\* C28: no scan outlives 10 minutes: a scan made at time t is not found at
\* any time later than t plus 10 minutes, whatever ScanFiles calls it got
\* (its registry is as CreateScan left it: nothing but ScanFiles calls has
\* written the scan).
C28_AbsoluteMaximum ==
  \A id \in DOMAIN pending.created :
    (/\ pending.now > pending.created[id] + CleanupInterval
     /\ id \in DOMAIN lc
     /\ lc[id].interests = initialInterests)
      => ~Alive(id)

\* C28, amended: a scan has no greatest age.  Every ScanFiles call that
\* succeeds leaves the scan to be found for 5 more minutes, however long
\* ago the scan was made, and an item leaves the cache only expired, when
\* the janitor runs, every 10 minutes.
C28_NoMaximum ==
  [][/\ (pending.call.pc = "ScanFiles" /\ pending'.call = noCall
          /\ last'.err = NoError)
         => /\ pending'.Expiration[pending.call.ScanId]
                 = pending.now + DefaultExpiration
            /\ \A id \in {pending.call.ScanId} : Alive(id)'
     /\ \A id \in DOMAIN lc \ DOMAIN lc' :
          ~Alive(id) /\ pending.now % CleanupInterval = 0]_vars

C28_Witness ==
  \E id \in DOMAIN lc :
    /\ pending.now > pending.created[id] + CleanupInterval
    /\ lc[id].interests = initialInterests
    /\ last.op = "ScanFiles" /\ last.err = NoError /\ last.ScanId = id
    /\ Alive(id)

(***************************************************************************)
(* ScanFiles with a minion that fails: the minion m2 answers AnalyzeFiles   *)
(* with an error, and with the error comes a response that has a finding    *)
(* and a new interest in it.                                                *)
(***************************************************************************)
AbortMinionAnswers ==
  [m1 |-> {minionAnswer(<<"finding of m1">>, <<>>),
            minionAnswer(<<"finding of m1">>, NewInterests)},
   m2 |-> {minionAnswer(<<"finding of m2">>, <<>>),
            [err |-> ErrMinion, Findings |-> <<"finding of m2">>,
             NewInterests |-> <<Interest("/a", METADATA)>>]}]

AbortScanFiles(scanID, files) ==
  ScanFilesWith(scanID, files, AbortMinionAnswers, MaxInterests)

AbortNext ==
  \/ CreateScan /\ UNCHANGED <<goblin, pending>>
  \/ \E scanID \in DOMAIN lc, files \in Requests :
       AbortScanFiles(scanID, files) /\ UNCHANGED <<goblin, pending>>

SpecAbort == Init /\ [][AbortNext]_vars

\* The AnalyzeFiles calls of the record of a call that came back with an error.
FailedCalls(call) ==
  {k \in 1..Len(call.calls) : call.calls[k].answer.err # NoError}

\* C29: when the AnalyzeFiles call to a minion returns an error, the
\* ScanFiles call returns that error at once, calling no further minion,
\* and returns no result: no finding and no new interest, of the minions
\* that had answered and of the failing one.
C29_FailFast ==
  (last.op = "ScanFiles" /\ FailedCalls(last) # {})
    => /\ FailedCalls(last) = {Len(last.calls)}
       /\ last.err = last.calls[Len(last.calls)].answer.err
       /\ last.Results = <<>>
       /\ last.NewInterests = <<>>

C29_Witness ==
  /\ last.op = "ScanFiles"
  /\ last.err = ErrMinion
  /\ Len(last.calls) = 2
  /\ last.calls[1].answer.Findings # <<>>
  /\ last.calls[1].answer.NewInterests # <<>>
  /\ last.Results = <<>>

\* The new interests of the answers that came without an error, each with
\* the minion that answered.
AnsweredInterests(call) ==
  Flatten([k \in 1..Len(call.calls) |->
             IF call.calls[k].answer.err # NoError THEN <<>>
             ELSE [j \in 1..Len(call.calls[k].answer.NewInterests) |->
                     MappedInterest(call.calls[k].answer.NewInterests[j],
                                    call.calls[k].Minion)]])

\* C30: when a ScanFiles call ends on the error of a minion, the chunks of
\* the call stay appended to the stored files, the new interests of the
\* minions that answered before stay registered after the interests there
\* were, none of which is taken away, and nothing of the response of the
\* failing minion is registered.
C30_AbortKeepsCommitted ==
  [][(last'.op = "ScanFiles" /\ FailedCalls(last') # {})
       => /\ DOMAIN lc' = DOMAIN lc
          /\ \E files \in Requests :
               \E a \in {AddFiles(lc, last'.ScanId, files)} :
                 /\ a.err = NoError
                 /\ a.accepted = last'.accepted
                 /\ lc'[last'.ScanId].files = a.lc[last'.ScanId].files
          /\ lc'[last'.ScanId].interests
               = lc[last'.ScanId].interests \o AnsweredInterests(last')]_vars

C30_Witness ==
  /\ last.op = "ScanFiles"
  /\ last.err = ErrMinion
  /\ Len(last.calls) = 2
  /\ last.accepted # <<>>
  /\ AnsweredInterests(last) # <<>>
  /\ last.calls[2].answer.NewInterests # <<>>
  /\ Len(lc[last.ScanId].interests) = Len(initialInterests) + Len(AnsweredInterests(last))

(***************************************************************************)
(* Repeated submission of a path.                                          *)
(***************************************************************************)
\* C31: AddFiles refuses a File for a path the scan already stores when the
\* size in its metadata is not the size stored for the path: it returns an
\* error, and the metadata and the bytes stored for the path stay as they
\* were.
C31_ConflictingSize ==
  [][(last'.op = "AddFiles" /\ last'.ScanId \in DOMAIN lc)
       => \A k \in 1..Len(last'.Files) :
            LET path == GetPath(last'.Files[k].Metadata)
            IN (/\ path \in DOMAIN lc[last'.ScanId].files
                /\ GetSize(last'.Files[k].Metadata)
                     # GetSize(lc[last'.ScanId].files[path].Metadata))
                 => /\ last'.err # NoError
                    /\ lc'[last'.ScanId].files[path] = lc[last'.ScanId].files[path]]_vars

(***************************************************************************)
(* loadFiles of the goblins on its own: pending holds the interests and    *)
(* the tree it is given, last the batch of files it returns.               *)
(***************************************************************************)
LoadInterests == {Interest(pattern, dt) : pattern \in {"/a", "/"}, dt \in DataTypes}

LoadInit ==
  /\ lc = [id \in {} |-> emptyState]
  /\ initialInterests = <<>>
  /\ uuids = 0
  /\ last = [op |-> "New", ret |-> <<>>]
  /\ goblin = noGoblin
  /\ pending \in {[interests |-> S, root |-> root] :
                    S \in UNION {[1..n -> LoadInterests] : n \in 0..MaxMinify},
                    root \in Trees}

LoadCall ==
  /\ last.op = "New"
  /\ \E ret \in loadFiles(pending.interests, pending.root) :
       last' = [op |-> "loadFiles", ret |-> ret]
  /\ UNCHANGED <<lc, initialInterests, uuids, goblin, pending>>

SpecLoad == LoadInit /\ [][LoadCall]_vars

\* C32: loadFiles emits each file of the tree whose path an interest
\* matches, once, with its metadata, and with its bytes in chunks whenever
\* one of the interests that match the path is in metadata and data,
\* whatever the other interests that match it and wherever they stand.
C32_DataWhenAnyWantsIt ==
  last.op = "loadFiles" =>
    /\ {last.ret[k].Metadata.Path : k \in 1..Len(last.ret)}
         = Accepted(pending.interests) \cap DOMAIN pending.root
    /\ \A k \in 1..Len(last.ret) :
         LET path == last.ret[k].Metadata.Path
         IN /\ last.ret[k].Metadata = FileMetadata(path, pending.root[path])
            /\ (\E j \in 1..Len(pending.interests) :
                   /\ MatchString(pending.interests[j].PathRegexp, path).match
                   /\ pending.interests[j].DataType = METADATA_AND_DATA)
                 => last.ret[k].DataChunks = getDataChunks(pending.root[path])

(***************************************************************************)
(* overlord.New: pending holds the addresses it is given, the addresses    *)
(* that cannot be dialed and what each minion answers to                    *)
(* ListInitialInterests; last tells what New returned and the calls made.   *)
(***************************************************************************)
InitialReplies ==
  {[err |-> NoError, Interests |-> <<>>],
   [err |-> NoError, Interests |-> <<Interest("/a", METADATA_AND_DATA), Interest("/", METADATA)>>],
   [err |-> ErrMinion, Interests |-> <<>>]}

NewInit ==
  /\ lc = [id \in {} |-> emptyState]
  /\ initialInterests = <<>>
  /\ uuids = 0
  /\ last = [op |-> "main", err |-> NoError, server |-> FALSE, calls |-> <<>>]
  /\ goblin = noGoblin
  /\ pending \in {[minionAddresses |-> a, undialable |-> u, replies |-> r] :
                    a \in UNION {[1..n -> Minions] : n \in 0..MaxAddresses},
                    u \in SUBSET Minions,
                    r \in [Minions -> InitialReplies]}

\* getInterestsFromMinions that goes on to the next minion when one fails.
RECURSIVE listInitialSkip(_, _, _, _, _)
listInitialSkip(order, replies, k, interests, calls) ==
  IF k > Len(order) THEN [interests |-> interests, err |-> NoError, calls |-> calls]
  ELSE IF replies[order[k]].err # NoError
  THEN listInitialSkip(order, replies, k + 1, interests, Append(calls, order[k]))
  ELSE listInitialSkip(order, replies, k + 1,
                       interests \o [j \in 1..Len(replies[order[k]].Interests) |->
                                       MappedInterest(replies[order[k]].Interests[j], order[k])],
                       Append(calls, order[k]))

\* getInterestsFromMinions with the error of a minion (lines 96-101), from
\* the k-th minion of the order in which the map is ranged over; calls
\* lists the minions ListInitialInterests was called on.
RECURSIVE listInitial(_, _, _, _, _)
listInitial(order, replies, k, interests, calls) ==
  IF k > Len(order) THEN [interests |-> interests, err |-> NoError, calls |-> calls]
  ELSE IF replies[order[k]].err # NoError
  THEN [interests |-> <<>>, err |-> replies[order[k]].err, calls |-> Append(calls, order[k])]
  ELSE listInitial(order, replies, k + 1,
                   interests \o [j \in 1..Len(replies[order[k]].Interests) |->
                                   MappedInterest(replies[order[k]].Interests[j], order[k])],
                   Append(calls, order[k]))

\* overlord.New
New ==
  /\ last.op = "main"
  /\ IF Range(pending.minionAddresses) \cap pending.undialable # {}
     THEN /\ last' = [op |-> "New", err |-> ErrDial, server |-> FALSE, calls |-> <<>>]
          /\ UNCHANGED initialInterests
     ELSE \E order \in Orders(Range(pending.minionAddresses)) :
            \E r \in {listInitial(order, pending.replies, 1, <<>>, <<>>)} :
              /\ last' = [op |-> "New", err |-> r.err, server |-> r.err = NoError,
                          calls |-> r.calls]
              /\ initialInterests' = r.interests
  /\ UNCHANGED <<lc, uuids, goblin, pending>>

SpecNew == NewInit /\ [][New]_vars

RemoveFile(c, scanID, path) ==
  IF path \in DOMAIN c[scanID].files
  THEN [lc |-> [c EXCEPT ![scanID].files =
                  [q \in DOMAIN c[scanID].files \ {path} |-> c[scanID].files[q]]],
        removed |-> TRUE]
  ELSE [lc |-> c, removed |-> FALSE]

\* Local.RemoveFile: getState panics when the scan is not in the cache
\* (lines 107 and 160-161).
LocalRemoveFile(scanID, path) ==
  /\ IF ~ScanExists(lc, scanID)
     THEN /\ last' = [Answer("RemoveFile", scanID, Panic, <<>>) EXCEPT
                       !.Files = <<[Metadata |-> FileMetadata(path, 0), DataChunks |-> <<>>]>>]
          /\ lc' = lc
     ELSE \E r \in {RemoveFile(lc, scanID, path)} :
            /\ last' = [removed |-> r.removed] @@
                       [Answer("RemoveFile", scanID, NoError, <<>>) EXCEPT
                          !.Files = <<[Metadata |-> FileMetadata(path, 0), DataChunks |-> <<>>]>>]
            /\ lc' = r.lc
  /\ UNCHANGED <<initialInterests, uuids, goblin, pending>>

SpecRemove ==
  StoreInit /\ [][~Crashed /\ (\/ StoreNext
                                \/ \E scanID \in Range(ScanIdSeq), path \in Paths :
                                     LocalRemoveFile(scanID, path))]_vars

\* C34: RemoveFile deletes the file stored under the path and returns true
\* when the path is stored, returns false and changes nothing when it is
\* not, and returns an error when the scan is absent; the other files and
\* the interests of the scan stay as they were.
C34_RemoveFile ==
  [][last'.op = "RemoveFile" =>
       LET id == last'.ScanId
           path == GetPath(last'.Files[1].Metadata)
       IN IF id \notin DOMAIN lc
          THEN last'.err \notin {NoError, Panic} /\ lc' = lc
          ELSE /\ last'.err = NoError
               /\ last'.removed = (path \in DOMAIN lc[id].files)
               /\ DOMAIN lc'[id].files = DOMAIN lc[id].files \ {path}
               /\ \A q \in DOMAIN lc'[id].files : lc'[id].files[q] = lc[id].files[q]
               /\ lc'[id].interests = lc[id].interests]_vars

(***************************************************************************)
(* ScanFiles with findings that have a Source field: the minions answer    *)
(* with findings whose Source is set, or nil (here "").                     *)
(***************************************************************************)
SourceMinionAnswers ==
  [m1 |-> {minionAnswer(<<[Advisory |-> "advisory of m1", Source |-> ""]>>, <<>>),
            minionAnswer(<<[Advisory |-> "advisory of m1", Source |-> "m1"]>>, <<>>)},
   m2 |-> {minionAnswer(<<[Advisory |-> "advisory of m2", Source |-> ""]>>, <<>>),
            minionAnswer(<<[Advisory |-> "advisory of m2", Source |-> "Vulners"]>>, <<>>)}]

SpecSource ==
  Init /\ [][
    \/ CreateScan /\ UNCHANGED <<goblin, pending>>
    \/ \E scanID \in DOMAIN lc, files \in Requests :
         ScanFilesWith(scanID, files, SourceMinionAnswers, MaxInterests)
           /\ UNCHANGED <<goblin, pending>>
  ]_vars

\* The findings of the answers of a call, one after the other, each finding
\* without a source given the minion that answered as its source.
Stamped(call) ==
  Flatten([k \in 1..Len(call.calls) |->
             [j \in 1..Len(call.calls[k].answer.Findings) |->
                IF call.calls[k].answer.Findings[j].Source = ""
                THEN [call.calls[k].answer.Findings[j] EXCEPT !.Source = call.calls[k].Minion]
                ELSE call.calls[k].answer.Findings[j]]])

\* C35: ScanFiles returns the findings of the minions it called, as they
\* were answered, but for the source of a finding that came without one,
\* which is the minion that answered it.
C35_SourceStamped ==
  (last.op = "ScanFiles" /\ last.err = NoError) => last.Results = Stamped(last)

(***************************************************************************)
(* grpcutil.GetSslServerCreds on its own: pending holds the three paths it *)
(* is given, last what it returns.                                         *)
(***************************************************************************)
\* The paths: none, a path of no file, a file that is no PEM, and the
\* certificate, the key and the CA certificate of the test data.
CredFiles == {"", "missing", "garbage", "127.0.0.1.crt", "127.0.0.1.key", "test_ca.crt"}

GetSslServerCreds(certPath, keyPath, caCertPath) ==
  IF certPath = "" /\ keyPath = ""
  THEN [opt |-> "nil", err |-> NoError]
  ELSE IF certPath = "" \/ keyPath = ""
  THEN [opt |-> "nil", err |-> "please specify both an SSL key and certificate"]
  ELSE IF ~(certPath = "127.0.0.1.crt" /\ keyPath = "127.0.0.1.key")
  THEN [opt |-> "nil", err |-> "tls.LoadX509KeyPair: error"]
  ELSE IF caCertPath = ""
  THEN [opt |-> "Creds(TLS)", err |-> NoError]
  ELSE IF caCertPath = "missing"
  THEN [opt |-> "nil", err |-> "ioutil.ReadFile: error"]
  ELSE IF caCertPath \notin {"127.0.0.1.crt", "test_ca.crt"}
  THEN [opt |-> "nil",
        err |-> "failed while creating CA pool for client verification. Check the CA cert"]
  ELSE [opt |-> "Creds(TLS, RequireAndVerifyClientCert)", err |-> NoError]

CredsInit ==
  /\ lc = [id \in {} |-> emptyState]
  /\ initialInterests = <<>>
  /\ uuids = 0
  /\ last = [op |-> "New", opt |-> "nil", err |-> NoError]
  /\ goblin = noGoblin
  /\ pending \in [certPath : CredFiles, keyPath : CredFiles, caCertPath : CredFiles]

CredsCall ==
  /\ last.op = "New"
  /\ last' = [op |-> "GetSslServerCreds"]
               @@ GetSslServerCreds(pending.certPath, pending.keyPath, pending.caCertPath)
  /\ UNCHANGED <<lc, initialInterests, uuids, goblin, pending>>

SpecCreds == CredsInit /\ [][CredsCall]_vars

\* C36: GetSslServerCreds returns no option and no error when neither the
\* certificate nor the key nor the CA is set; an error when one of the
\* certificate and the key is set and the other is not; and an error when
\* the CA is set and the certificate and the key are not.
C36_ServerCreds ==
  last.op = "GetSslServerCreds" =>
    /\ (pending.certPath = "" /\ pending.keyPath = "" /\ pending.caCertPath = "")
         => (last.opt = "nil" /\ last.err = NoError)
    /\ ((pending.certPath = "") # (pending.keyPath = "")) => last.err # NoError
    /\ (pending.caCertPath # "" /\ pending.certPath = "" /\ pending.keyPath = "")
         => last.err # NoError

(***************************************************************************)
(* The vulners minion: pending.tmpCache is its state for each scan, and    *)
(* pending.sent the files it has been sent for the scan; last is its        *)
(* answer to AnalyzeFiles.  GetVulnerabilitiesForPackages answers one       *)
(* vulnerable package for each package it is asked about, or fails.         *)
(***************************************************************************)
VulnFiles ==
  {[Path |-> "/etc/os-release", Data |-> "os-release.1"],
   [Path |-> "/etc/os-release", Data |-> "garbage"],
   [Path |-> "/var/lib/dpkg/status", Data |-> "dpkg"],
   [Path |-> "/etc/passwd", Data |-> "garbage"]}

\* extractOsAndSetState that begins a new state with what it has parsed.
extractOsFresh(state, f) ==
  IF f.Data # "os-release.1"
  THEN [state |-> state, err |-> "Could not identify os or version"]
  ELSE [state |-> [version |-> "18.04", distro |-> "Ubuntu", packages |-> <<>>,
                   init |-> TRUE],
        err |-> NoError]

\* extractOsAndSetState, with getOsAndversion: the test data names Ubuntu
\* 18.04, and a file without NAME or VERSION_ID is an error.
extractOsAndSetState(state, f) ==
  IF f.Data # "os-release.1"
  THEN [state |-> state, err |-> "Could not identify os or version"]
  ELSE [state |-> [state EXCEPT !.version = "18.04", !.distro = "Ubuntu"],
        err |-> NoError]

\* AnalyzeFiles, the loop over the files of the request (lines 100-132),
\* from the k-th file on: the state of the scan when the loop ends or
\* returns an error.
RECURSIVE analyzeLoop(_, _, _)
analyzeLoop(state, files, k) ==
  IF k > Len(files) THEN [state |-> state, err |-> NoError]
  ELSE IF files[k].Path \in {"/etc/os-release", "/usr/lib/os-release"}
  THEN LET r == extractOsAndSetState(state, files[k])
       IN IF r.err # NoError THEN r ELSE analyzeLoop(r.state, files, k + 1)
  ELSE IF files[k].Path = "/var/lib/dpkg/status"
  THEN analyzeLoop([state EXCEPT !.packages = @ \o <<"mokutil 0.3.0-0ubuntu5 amd64">>],
                   files, k + 1)
  ELSE analyzeLoop(state, files, k + 1)

VulnInit ==
  /\ lc = [id \in {} |-> emptyState]
  /\ initialInterests = <<>>
  /\ uuids = 0
  /\ last = [op |-> "NewMinion", ScanId |-> "", Files |-> <<>>, err |-> NoError,
             Findings |-> {}, api |-> "none"]
  /\ goblin = noGoblin
  /\ pending = [tmpCache |-> [id \in {} |-> 0],
                sent |-> [id \in Range(TwoScanIds) |-> {}]]

\* Minion.AnalyzeFiles of the vulners minion
VulnersAnalyzeFiles(scanId, files, apiFails) ==
  LET s0 == IF scanId \in DOMAIN pending.tmpCache THEN pending.tmpCache[scanId]
            ELSE [version |-> "", distro |-> "", packages |-> <<>>, init |-> TRUE]
  IN \E r \in {analyzeLoop(s0, files, 1)} :
       /\ Len(r.state.packages) <= MaxPackages
       /\ pending' = [tmpCache |-> (scanId :> r.state) @@ pending.tmpCache,
                      sent |-> [pending.sent EXCEPT ![scanId] = @ \cup Range(files)]]
       /\ last' =
            [op |-> "AnalyzeFiles", ScanId |-> scanId, Files |-> files] @@
            (IF r.err # NoError
             THEN [err |-> r.err, Findings |-> {}, api |-> "none"]
             ELSE IF ~(Len(r.state.packages) > 0 /\ r.state.distro # "")
             THEN [err |-> NoError, Findings |-> {}, api |-> "none"]
             ELSE IF apiFails
             THEN [err |-> "GetVulnerabilitiesForPackages: error", Findings |-> {},
                   api |-> "error"]
             ELSE [err |-> NoError, Findings |-> Range(r.state.packages), api |-> "ok"])
       /\ UNCHANGED <<lc, initialInterests, uuids, goblin>>

SpecVulners ==
  VulnInit /\ [][\E scanId \in Range(TwoScanIds), apiFails \in BOOLEAN,
                    files \in UNION {[1..n -> VulnFiles] : n \in 0..2} :
                   VulnersAnalyzeFiles(scanId, files, apiFails)]_vars

\* The minion has been sent, for the scan, the OS release and the packages.
BothSent(id) ==
  /\ [Path |-> "/etc/os-release", Data |-> "os-release.1"] \in pending.sent[id]
  /\ [Path |-> "/var/lib/dpkg/status", Data |-> "dpkg"] \in pending.sent[id]

AgainInit ==
  /\ lc = [id \in {} |-> emptyState]
  /\ \E order \in Orders(Minions) :
       initialInterests = getInterestsFromMinions(order, OverlapInitialAnswers)
  /\ uuids = 0
  /\ last = Answer("New", "", NoError, <<>>)
  /\ goblin = noGoblin
  /\ pending = [delivered |-> {}]

AgainScanFiles(scanID, files) ==
  /\ ScanFiles(scanID, files)
  /\ pending' = [delivered |-> pending.delivered \cup
                    UNION {{<<last'.calls[k].Minion, last'.calls[k].Files[j].Metadata.Path>> :
                              j \in 1..Len(last'.calls[k].Files)} :
                           k \in 1..Len(last'.calls)}]
  /\ UNCHANGED goblin

SpecAgain ==
  AgainInit /\ [][\/ CreateScan /\ UNCHANGED <<goblin, pending>>
                  \/ \E scanID \in DOMAIN lc, files \in Requests :
                       AgainScanFiles(scanID, files)]_vars

\* C38: a ScanFiles call takes no file out of the store, and a call that
\* returns without error has sent each minion again every file that a call
\* of the scan had sent it before.
C38_DeliveredAgain ==
  [][(last'.op = "ScanFiles" /\ last'.err = NoError)
       => /\ DOMAIN lc[last'.ScanId].files \subseteq DOMAIN lc'[last'.ScanId].files
          /\ \A d \in pending.delivered :
               \E k \in 1..Len(last'.calls) :
                 /\ last'.calls[k].Minion = d[1]
                 /\ \E j \in 1..Len(last'.calls[k].Files) :
                      last'.calls[k].Files[j].Metadata.Path = d[2]]_vars

(***************************************************************************)
(* Two scans, with what each of them has learned: pending[id].learned is   *)
(* the interests the ScanFiles calls of scan id got from the minions, each *)
(* with its minion, and pending[id].others is what the other scans had     *)
(* learned when scan id was created.                                       *)
(***************************************************************************)
SpecIsolated ==
  Init /\ [][
    \/ /\ CreateScanWith(TwoScanIds)
       /\ pending' = (last'.ScanId :>
                        [learned |-> <<>>,
                         others |-> UNION {Range(pending[b].learned) :
                                             b \in DOMAIN pending}])
                      @@ pending
       /\ UNCHANGED goblin
    \/ \E scanId \in DOMAIN lc :
         ListInterests(scanId, "") /\ UNCHANGED <<goblin, pending>>
    \/ \E scanID \in DOMAIN lc, files \in ScanRequests :
         /\ ScanFiles(scanID, files)
         /\ pending' = [pending EXCEPT ![scanID].learned = @ \o Learned(last')]
         /\ UNCHANGED goblin
  ]_vars

\* C39: a CreateScan, ScanFiles or ListInterests call leaves the files and
\* the registry of every scan other than its own as they were; the registry
\* of a scan is the initial interests followed by what the ScanFiles calls
\* of that scan learned, so that ListInterests answers from these alone;
\* and CreateScan answers from the initial interests, which no call changes.
C39_Isolated ==
  [][/\ \A B \in DOMAIN lc \ {last'.ScanId} : B \in DOMAIN lc' /\ lc'[B] = lc[B]
     /\ \A B \in DOMAIN lc' : lc'[B].interests = initialInterests \o pending'[B].learned
     /\ initialInterests' = initialInterests
     /\ (last'.op = "ListInterests" /\ last'.err = NoError)
          => last'.Interests \in
               Minify(InterestsOf(initialInterests \o pending[last'.ScanId].learned))
     /\ last'.op = "CreateScan"
          => last'.Interests \in Minify(InterestsOf(initialInterests))]_vars

\* ListInterests has answered for a scan that has learned nothing and was
\* created after the other scan had learned interests and stored a file.
C39_Witness ==
  /\ last.op = "ListInterests"
  /\ last.err = NoError
  /\ last.ScanId = "s2"
  /\ DOMAIN lc = {"s1", "s2"}
  /\ pending["s2"].learned = <<>>
  /\ pending["s2"].others # {}
  /\ DOMAIN lc["s1"].files # {}
  /\ DOMAIN lc["s2"].files = {}

\* C40: the initial interests and every interest in the registry of a scan
\* are kept with the address of a minion the Overlord has a client for, and
\* no call ends with the error of an interest expressed by a minion that
\* is not known to the Overlord.
C40_KnownMinions ==
  /\ \A k \in 1..Len(initialInterests) : initialInterests[k].Minion \in Minions
  /\ \A id \in DOMAIN lc :
       \A k \in 1..Len(lc[id].interests) : lc[id].interests[k].Minion \in Minions
  /\ last.err # ErrUnknownMinion

\* A ScanFiles call has called both minions and has added what it learned
\* to the registry of the scan.
C40_Witness ==
  /\ last.op = "ScanFiles"
  /\ last.err = NoError
  /\ {last.calls[k].Minion : k \in 1..Len(last.calls)} = Minions
  /\ Len(last.NewInterests) > 0
  /\ Len(lc[last.ScanId].interests) > Len(initialInterests)


====
